---- MODULE Spec2Model ----
(* Model of the libdlt-ng user library (src/lib/mod.rs): the configuration    *)
(* read from the environment, producers that emit log envelopes into bounded  *)
(* per-buffer channels, one worker thread per buffer that batches envelopes   *)
(* and writes them with one vectored write, the statistics counters kept for  *)
(* each buffer, and the frame codec (src/core/protocol.rs).                   *)
EXTENDS Integers, Sequences, FiniteSets, TLC

\* ---------------------------------------------------------------- bounds
MaxEmits == 2          \* emit calls that reach a ring during one run
MaxBufferSize == 2     \* largest DLT_USER_BUFFER_SIZE_i explored
MaxBatchSize == 2      \* largest DLT_USER_BATCH_SIZE explored
FrameLen == 2          \* bytes of one serialized frame
MaxBuffers == 3        \* largest DLT_USER_NUM_BUFFERS explored for routing
MaxRetryEmits == 3     \* emit calls of a run that emits again after a failure
MaxMessageLen == 2     \* bytes of the short message texts explored

Producers == {"p1", "p2"}          \* caller threads
BufferCounts == {1}                \* values of DLT_USER_NUM_BUFFERS explored
LogLevels == 1..6                  \* DltLogLevel: Fatal=1 .. Verbose=6

VARIABLES
    env,             \* the process environment: the DLT_USER_* variables
    num_buffers,     \* BufferConfig.num_buffers, immutable after init
    buffer_sizes,    \* BufferConfig.buffer_sizes[i], capacity of channel i
    batch_size,      \* BufferConfig.batch_size
    overflow_mode,   \* DltUserState.overflow_mode (AtomicU8)
    local_print_enabled, \* DltUserState.local_print_enabled (AtomicBool)
    process,         \* "running" until the process exits
    channel,         \* per buffer: envelopes resident in the bounded channel
    enqueued,        \* BufferStats.enqueued per buffer
    dropped,         \* BufferStats.dropped per buffer
    sent,            \* BufferStats.sent per buffer
    pc,              \* per producer: position inside log_to_buffer
    envelope,        \* per producer: the envelope of the emit in progress
    result,          \* per producer: value returned by the last emit
    suspended,       \* producers the OS has stopped for good
    emits,           \* history: one record per emit that reached a ring
    wpc,             \* per worker: position inside worker_thread
    connected,       \* per worker: local `connected`
    stream,          \* per worker: transport.stream (0 = None, 1 = Some(stream))
    batch,           \* per worker: local `batch`
    received,        \* history: envelopes dequeued by the worker, in order
    writes,          \* history: vectored writes that returned Ok(n)
    write_error,     \* per worker: the error `e` of the writev_send that failed
                     \* in this turn of the loop ("none" if none did)
    echoed,          \* history: per worker, the envelopes it printed locally
    codec,           \* a DltMessage, then its to_bytes, then their from_bytes
    tcp,             \* the byte stream the daemon serves to the subscriber client
    client,          \* DltClient (pending_data) and the history of its calls
    log_buffer,      \* daemon: the shuttle queue of chunks
    collector,       \* daemon: per producer connection, whether its thread runs
    subscriber,      \* daemon: per subscriber task, its position and `log_msg`
    ingress,         \* history: the chunks the collector threads have read
    egress           \* history: the write_all calls of the subscriber tasks

vars == <<env, num_buffers, buffer_sizes, batch_size, overflow_mode,
          local_print_enabled, process, echoed, channel,
          enqueued, dropped, sent, pc, envelope, result, suspended, emits,
          wpc, connected, stream, batch, received, writes, write_error, codec,
          tcp, client, log_buffer, collector, subscriber, ingress, egress>>

Buffers == 0..(num_buffers - 1)

\* ---------------------------------------------------------------- configuration
DEFAULT_NUM_BUFFERS == 4
DEFAULT_BUFFER_SIZE == 2048
DEFAULT_BATCH_SIZE == 16

\* An Option is <<>> (None) or <<v>> (Some(v)).  The value of an environment
\* variable is the integer its text spells; a variable that is not set is None.
unwrap_or(opt, default) == IF opt = <<>> THEN default ELSE opt[1]

\* env::var(..).ok().and_then(|s| s.parse().ok()) for usize and u64: text that
\* spells a negative number does not parse
parse_unsigned(opt) == IF opt # <<>> /\ opt[1] >= 0 THEN opt ELSE <<>>

\* the same for u8: only 0..=255 parse
parse_u8(opt) == IF opt # <<>> /\ opt[1] \in 0..255 THEN opt ELSE <<>>

\* env::var(format!("DLT_USER_BUFFER_SIZE_{}", i))
buffer_size_var(e, i) ==
    IF i \in DOMAIN e.buffer_size THEN e.buffer_size[i] ELSE <<>>

\* ---------------------------------------------------------------- helpers
\* Faulty variant of from_u8: the byte is taken as the mode without a check.
from_u8_unchecked(val) == val

\* OverflowMode::from_u8
from_u8(val) == IF val \in {0, 1, 2} THEN val ELSE 0

\* Faulty variant of select_buffer: no special case for Fatal.
select_buffer_plain_modulo(level, n) == level % n

\* OverflowMode::timeout: DLT_USER_TIMEOUT_MS as it is set now, 100 ms otherwise
timeout(e) == unwrap_or(parse_unsigned(e.timeout_ms), 100)

\* BufferConfig::from_env
from_env(e) ==
    LET n == unwrap_or(parse_unsigned(e.num_buffers), DEFAULT_NUM_BUFFERS) IN
    [num_buffers |-> n,
     buffer_sizes |-> [i \in 0..(n - 1) |->
                        unwrap_or(parse_unsigned(buffer_size_var(e, i)),
                                  DEFAULT_BUFFER_SIZE)],
     batch_size |-> unwrap_or(parse_unsigned(e.batch_size), DEFAULT_BATCH_SIZE),
     overflow_mode |-> IF parse_u8(e.overflow_mode) = <<>> THEN 0
                       ELSE from_u8(parse_u8(e.overflow_mode)[1])]

\* the `_` arm of select_buffer computes `level % senders.len()`: with no
\* sender the remainder by zero panics
select_buffer_panics(level, n) ==
    /\ ~(level = 1 /\ n > 0)
    /\ ~(level = 2 /\ n > 1)
    /\ n = 0

\* DltUserState::select_buffer
select_buffer(level, n) ==
    IF level = 1 /\ n > 0 THEN 0
    ELSE IF level = 2 /\ n > 1 THEN 1 % n
    ELSE level % n

\* Faulty variant of is_full: the channel accepts one envelope more than its capacity.
is_full_off_by_one(q, cap) == Len(q) > cap

\* crossbeam bounded(buffer_size): the channel is full at buffer_size residents
is_full(q, cap) == Len(q) >= cap

\* Faulty variant of try_send: a full channel displaces its oldest envelope.
try_send_displace(q, cap, e) ==
    IF is_full(q, cap) THEN [res |-> "Full", q |-> Append(Tail(q), e)]
    ELSE [res |-> "Ok", q |-> Append(q, e)]

\* sender.try_send(envelope): Ok appends at the tail, Full leaves the channel
try_send(q, cap, e) ==
    IF is_full(q, cap) THEN [res |-> "Full", q |-> q]
    ELSE [res |-> "Ok", q |-> Append(q, e)]

\* Faulty variant of uses_send_timeout: DropNewest takes the blocking path as well.
uses_send_timeout_drop_newest(mode) == from_u8(mode) >= 1

\* Faulty variant of uses_send_timeout: the arm is chosen by a second load of
\* the mode register instead of the mode the emit has read.
uses_send_timeout_second_load(mode) == from_u8(overflow_mode) = 2

\* enqueue_message: match mode { Overwrite | DropNewest => try_send, BlockWithTimeout => send_timeout }
uses_send_timeout(mode) == from_u8(mode) = 2

\* Faulty variant of send_timeout_wake: a blocking send without deadline.
send_timeout_wake_no_deadline(q, cap) == IF is_full(q, cap) THEN {} ELSE {"Ok"}

\* sender.send_timeout(envelope, timeout) while blocked: the ways the wait ends
send_timeout_wake(q, cap) == IF is_full(q, cap) THEN {"Timeout"} ELSE {"Ok"}

\* Faulty variant of batch_push: the batch is built newest first.
batch_push_front(b, e) == <<e>> \o b

\* batch.push(envelope)
batch_push(b, e) == Append(b, e)

\* message_bytes.len() of a batch: every frame is FrameLen bytes long
batch_bytes(b) == Len(b) * FrameLen

RECURSIVE SumOver(_, _)
SumOver(f, S) ==
    IF S = {} THEN 0
    ELSE LET x == CHOOSE y \in S : TRUE IN f[x] + SumOver(f, S \ {x})

\* dlt_get_overflow_count
dlt_get_overflow_count == SumOver(dropped, Buffers)

\* dlt_get_buffer_stats
dlt_get_buffer_stats(i) ==
    IF i \in Buffers THEN <<enqueued[i], dropped[i], sent[i]>> ELSE <<>>

\* no emit in progress: the producer holds no LogEnvelope
NoEnvelope == [id |-> 0, buffer_id |-> 0, mode |-> 0, timeout |-> 0]

\* ---------------------------------------------------------------- init
\* DltUserState::new after the configuration is known: empty channels, zeroed
\* statistics, one worker per buffer whose first transport.connect() has
\* succeeded or failed.
DltUserState_new ==
    /\ channel = [i \in Buffers |-> <<>>]
    /\ enqueued = [i \in Buffers |-> 0]
    /\ dropped = [i \in Buffers |-> 0]
    /\ sent = [i \in Buffers |-> 0]
    /\ pc = [p \in Producers |-> "idle"]
    /\ envelope = [p \in Producers |-> NoEnvelope]
    /\ result = [p \in Producers |-> "none"]
    /\ suspended = {}
    /\ emits = <<>>
    /\ wpc = [i \in Buffers |-> "recv"]
    /\ connected \in [Buffers -> BOOLEAN]
    /\ stream = [i \in Buffers |-> IF connected[i] THEN 1 ELSE 0]
    /\ batch = [i \in Buffers |-> <<>>]
    /\ received = [i \in Buffers |-> <<>>]
    /\ writes = [i \in Buffers |-> <<>>]
    /\ write_error = [i \in Buffers |-> "none"]
    /\ local_print_enabled = FALSE
    /\ echoed = [i \in Buffers |-> <<>>]
    /\ process = "running"
    /\ codec = <<>>

\* the subscriber client (src/client) and the daemon (src/daemon) are other
\* processes; the library does not touch their state
SubscriberVars == <<tcp, client>>
DaemonVars == <<log_buffer, collector, subscriber, ingress, egress>>

\* no subscriber client has been started
NoClient ==
    /\ tcp = [junk |-> <<>>, frames |-> <<>>, pos |-> 0]
    /\ client = <<>>

\* no daemon has been started
NoDaemon ==
    /\ log_buffer = <<>>
    /\ collector = <<>>
    /\ subscriber = <<>>
    /\ ingress = <<>>
    /\ egress = <<>>

\* the process that uses the library, on its own
Constructed == DltUserState_new /\ NoClient /\ NoDaemon

\* `let config = BufferConfig::from_env()` and the mode register set from it
Configured ==
    LET config == from_env(env) IN
    /\ num_buffers = config.num_buffers
    /\ buffer_sizes = config.buffer_sizes
    /\ batch_size = config.batch_size
    /\ overflow_mode = config.overflow_mode

Some(S) == {<<v>> : v \in S}

\* the environments that set DLT_USER_NUM_BUFFERS from counts, every
\* DLT_USER_BUFFER_SIZE_i from sizes, DLT_USER_BATCH_SIZE from batches, and
\* hold the given Options for DLT_USER_OVERFLOW_MODE and DLT_USER_TIMEOUT_MS
Environments(counts, sizes, batches, modes, timeouts) ==
    UNION {[num_buffers : {<<n>>},
            buffer_size : [0..(n - 1) -> Some(sizes)],
            batch_size : Some(batches),
            overflow_mode : modes,
            timeout_ms : timeouts] : n \in counts}

\* DltUserState::new in an environment that sets the buffers and the batch
\* size; the mode register starts as Overwrite and changes by set-overflow-mode
Init ==
    /\ env \in Environments(BufferCounts, 1..MaxBufferSize, 1..MaxBatchSize,
                            {<<>>}, {<<>>})
    /\ Configured
    /\ Constructed

\* the same with DLT_USER_OVERFLOW_MODE set to one of the three modes
SteadyInit ==
    /\ env \in Environments(BufferCounts, 1..MaxBufferSize, 1..MaxBatchSize,
                            Some({0, 1, 2}), {<<>>})
    /\ Configured
    /\ Constructed

\* ---------------------------------------------------------------- producers
Running(p) == p \notin suspended

ProducerVars == <<pc, envelope, result, emits>>
WorkerVars == <<wpc, connected, stream, batch, received, writes, write_error,
               echoed>>
\* what no step of a producer, of a worker or of set-overflow-mode writes: the
\* environment, the configuration and the frames under the codec
ConfigVars == <<env, num_buffers, buffer_sizes, batch_size, codec,
                local_print_enabled, process,
                SubscriberVars, DaemonVars>>

\* the Receiver of channel i is gone: its worker thread has unwound
Disconnected(i) == wpc[i] = "panicked"

\* emits that have returned: every recorded emit no producer is still inside
CompletedEmits == (1..Len(emits)) \ {envelope[p].id : p \in Producers}

\* Faulty variant of LogToInvalidBuffer: the rejected emit is counted as a drop
\* of every buffer.
LogToInvalidBuffer_counted(p, id) ==
    /\ Running(p) /\ pc[p] = "idle"
    /\ id >= num_buffers
    /\ result' = [result EXCEPT ![p] = "err"]
    /\ dropped' = [i \in Buffers |-> dropped[i] + 1]
    /\ UNCHANGED <<ConfigVars, overflow_mode, channel, enqueued, sent,
                   pc, envelope, suspended, emits, WorkerVars>>

\* log_to_buffer with an explicit buffer id that enqueue_message rejects
LogToInvalidBuffer(p, id) ==
    /\ Running(p) /\ pc[p] = "idle"
    /\ id >= num_buffers
    /\ result' = [result EXCEPT ![p] = "err"]
    /\ UNCHANGED <<ConfigVars, overflow_mode, channel, enqueued, dropped, sent,
                   pc, envelope, suspended, emits, WorkerVars>>

\* log_to_buffer up to the load of the overflow mode in enqueue_message
StartEmit(p, id) ==
    /\ Running(p) /\ pc[p] = "idle"
    /\ id \in Buffers
    /\ LET e == [id |-> Len(emits) + 1, buffer_id |-> id,
                 mode |-> from_u8(overflow_mode), timeout |-> 0] IN
        /\ envelope' = [envelope EXCEPT ![p] = e]
        /\ emits' = Append(emits, [buffer_id |-> id, before |-> CompletedEmits,
                                   local_print |-> local_print_enabled])
    /\ pc' = [pc EXCEPT ![p] = "send"]
    /\ result' = [result EXCEPT ![p] = "none"]
    /\ UNCHANGED <<ConfigVars, overflow_mode, channel, enqueued, dropped, sent,
                   suspended, WorkerVars>>

\* DltContext::log: the buffer is select_buffer(level)
\* the same while the application has emits left to make
LogToBuffer(p, id) == Len(emits) < MaxEmits /\ StartEmit(p, id)

\* DltContext::log at one level: select_buffer panics or returns the buffer
LogAtLevel(p, level) ==
    IF select_buffer_panics(level, num_buffers)
    THEN /\ Running(p) /\ pc[p] = "idle"
         /\ pc' = [pc EXCEPT ![p] = "panicked"]
         /\ result' = [result EXCEPT ![p] = "panic"]
         /\ UNCHANGED <<ConfigVars, overflow_mode, channel, enqueued, dropped,
                        sent, envelope, suspended, emits, WorkerVars>>
    ELSE LogToBuffer(p, select_buffer(level, num_buffers))

Log(p) == \E level \in LogLevels : LogAtLevel(p, level)

\* DltContext::log_to_buffer with Some(buffer_id)
LogExplicit(p) ==
    \E id \in 0..num_buffers : LogToBuffer(p, id) \/ LogToInvalidBuffer(p, id)

\* enqueue_message, Overwrite | DropNewest arm: sender.try_send(envelope)
EnqueueTrySend(p) ==
    /\ Running(p) /\ pc[p] = "send"
    /\ ~Disconnected(envelope[p].buffer_id)
    /\ ~uses_send_timeout(envelope[p].mode)
    /\ LET i == envelope[p].buffer_id
           r == try_send(channel[i], buffer_sizes[i], envelope[p].id) IN
        /\ channel' = [channel EXCEPT ![i] = r.q]
        /\ pc' = [pc EXCEPT ![p] = IF r.res = "Ok" THEN "count_enqueued"
                                   ELSE "count_dropped"]
    /\ UNCHANGED <<ConfigVars, overflow_mode, enqueued, dropped, sent, envelope,
                   result, suspended, emits, WorkerVars>>

\* enqueue_message, BlockWithTimeout arm: sender.send_timeout(envelope,
\* OverflowMode::timeout()) finds room or blocks
EnqueueSendTimeout(p) ==
    /\ Running(p) /\ pc[p] = "send"
    /\ ~Disconnected(envelope[p].buffer_id)
    /\ uses_send_timeout(envelope[p].mode)
    /\ LET i == envelope[p].buffer_id
           r == try_send(channel[i], buffer_sizes[i], envelope[p].id) IN
        /\ channel' = [channel EXCEPT ![i] = r.q]
        /\ pc' = [pc EXCEPT ![p] = IF r.res = "Ok" THEN "count_enqueued"
                                   ELSE "wait"]
    /\ envelope' = [envelope EXCEPT ![p].timeout = timeout(env)]
    /\ UNCHANGED <<ConfigVars, overflow_mode, enqueued, dropped, sent,
                   result, suspended, emits, WorkerVars>>

\* send_timeout returns: room appeared (Ok) or the deadline passed (Timeout)
SendTimeoutReturn(p) ==
    /\ Running(p) /\ pc[p] = "wait"
    /\ ~Disconnected(envelope[p].buffer_id)
    /\ LET i == envelope[p].buffer_id IN
       \E how \in send_timeout_wake(channel[i], buffer_sizes[i]) :
        IF how = "Ok"
        THEN /\ channel' = [channel EXCEPT ![i] = Append(@, envelope[p].id)]
             /\ pc' = [pc EXCEPT ![p] = "count_enqueued"]
        ELSE /\ channel' = channel
             /\ pc' = [pc EXCEPT ![p] = "count_dropped"]
    /\ UNCHANGED <<ConfigVars, overflow_mode, enqueued, dropped, sent, envelope,
                   result, suspended, emits, WorkerVars>>

\* Faulty variant of CountDropped: the failed emit leaves the caller unusable.
CountDropped_poisons(p) ==
    /\ Running(p) /\ pc[p] = "count_dropped"
    /\ dropped' = [dropped EXCEPT ![envelope[p].buffer_id] = @ + 1]
    /\ pc' = [pc EXCEPT ![p] = "poisoned"]
    /\ result' = [result EXCEPT ![p] = "err"]
    /\ envelope' = [envelope EXCEPT ![p] = NoEnvelope]
    /\ UNCHANGED <<ConfigVars, overflow_mode, channel, enqueued, sent, emits,
                   suspended, WorkerVars>>

\* Ok arm: stats.enqueued.fetch_add(1); emit returns Ok
CountEnqueued(p) ==
    /\ Running(p) /\ pc[p] = "count_enqueued"
    /\ enqueued' = [enqueued EXCEPT ![envelope[p].buffer_id] = @ + 1]
    /\ pc' = [pc EXCEPT ![p] = "idle"]
    /\ result' = [result EXCEPT ![p] = "ok"]
    /\ envelope' = [envelope EXCEPT ![p] = NoEnvelope]
    /\ UNCHANGED <<ConfigVars, overflow_mode, channel, dropped, sent, emits,
                   suspended, WorkerVars>>

\* Full / timeout arm: stats.dropped.fetch_add(1); emit returns Err
CountDropped(p) ==
    /\ Running(p) /\ pc[p] = "count_dropped"
    /\ dropped' = [dropped EXCEPT ![envelope[p].buffer_id] = @ + 1]
    /\ pc' = [pc EXCEPT ![p] = "idle"]
    /\ result' = [result EXCEPT ![p] = "err"]
    /\ envelope' = [envelope EXCEPT ![p] = NoEnvelope]
    /\ UNCHANGED <<ConfigVars, overflow_mode, channel, enqueued, sent, emits,
                   suspended, WorkerVars>>

\* enqueue_message on a channel whose Receiver is gone: try_send returns
\* Err(TrySendError::Disconnected(_)) and the emit returns Err with no counter
\* changed; send_timeout returns Err(_), whose arm counts a drop
EnqueueDisconnected(p) ==
    /\ Running(p) /\ pc[p] \in {"send", "wait"}
    /\ Disconnected(envelope[p].buffer_id)
    /\ IF uses_send_timeout(envelope[p].mode)
       THEN /\ pc' = [pc EXCEPT ![p] = "count_dropped"]
            /\ UNCHANGED <<result, envelope>>
       ELSE /\ pc' = [pc EXCEPT ![p] = "idle"]
            /\ result' = [result EXCEPT ![p] = "err"]
            /\ envelope' = [envelope EXCEPT ![p] = NoEnvelope]
    /\ UNCHANGED <<ConfigVars, overflow_mode, channel, enqueued, dropped, sent,
                   emits, suspended, WorkerVars>>

\* every step a producer thread can take inside an emit
EmitStep(p) ==
    \/ EnqueueTrySend(p)
    \/ EnqueueSendTimeout(p)
    \/ SendTimeoutReturn(p)
    \/ CountEnqueued(p)
    \/ CountDropped(p)

\* the OS stops a producer thread in the middle of an emit and never resumes it
Suspend(p) ==
    /\ Running(p) /\ pc[p] # "idle"
    /\ suspended' = suspended \cup {p}
    /\ UNCHANGED <<ConfigVars, overflow_mode, channel, enqueued, dropped, sent,
                   ProducerVars, WorkerVars>>

\* Faulty variant of dlt_set_overflow_mode: a new mode empties the channels.
dlt_set_overflow_mode_flush(mode) ==
    /\ overflow_mode' = IF mode <= 2 THEN mode ELSE overflow_mode
    /\ channel' = [i \in Buffers |-> <<>>]
    /\ UNCHANGED <<ConfigVars, enqueued, dropped, sent, ProducerVars,
                   suspended, WorkerVars>>

\* dlt_set_overflow_mode
dlt_set_overflow_mode(mode) ==
    /\ overflow_mode' = IF mode <= 2 THEN mode ELSE overflow_mode
    /\ UNCHANGED <<ConfigVars, channel, enqueued, dropped, sent, ProducerVars,
                   suspended, WorkerVars>>

\* values of the u8 argument explored: the modes, and two bytes that are none
ModeArguments == {0, 1, 2, 3, 255}

SetOverflowMode == \E mode \in ModeArguments : dlt_set_overflow_mode(mode)

\* dlt_get_overflow_mode
dlt_get_overflow_mode == overflow_mode

\* ---------------------------------------------------------------- worker
\* UnixSocketTransport::writev: the results one call can have on a stream
writev(st, bytes) ==
    IF bytes = 0 THEN {[kind |-> "Ok", n |-> 0]}
    ELSE IF st = 0 THEN {[kind |-> "NotConnected", n |-> 0]}
    ELSE {[kind |-> "Ok", n |-> n] : n \in 1..bytes}
         \cup {[kind |-> "WouldBlock", n |-> 0], [kind |-> "Other", n |-> 0]}

\* DltUserState::writev_send: Ok(_bytes_written) => Ok(()), every Err(e) => Err(e)
writev_send(r) == r.kind = "Ok"

\* Faulty variant of after_push: the worker collects until the channel is empty.
after_push_unbounded(b) == "collect"

\* the loop condition `batch.len() < batch_size` after a push
after_push(b) == IF Len(b) < batch_size THEN "collect" ELSE "process"

\* Faulty variant of after_collect: the batch is written whether or not the
\* worker is marked connected.
after_collect_ignores_connected(i) == "send"

\* `if connected && !message_bytes.is_empty()` / `if !connected`
after_collect(i) == IF connected[i] THEN "send" ELSE "reconnect"

\* Faulty variant of local_print: the worker reads the flag of the library
\* when it processes the batch.
local_print_now(b) == IF local_print_enabled THEN b ELSE <<>>

\* `for envelope in &batch { if envelope.local_print { println!(...) } ... }`:
\* the envelopes of the batch the worker prints, in order
local_print(b) == SelectSeq(b, LAMBDA id : emits[id].local_print)

\* receiver.recv(): blocks until an envelope is resident, takes the oldest;
\* a batch that is full is processed
WorkerRecv(i) ==
    /\ wpc[i] = "recv"
    /\ channel[i] # <<>>
    /\ LET b == batch_push(<<>>, Head(channel[i])) IN
        /\ batch' = [batch EXCEPT ![i] = b]
        /\ wpc' = [wpc EXCEPT ![i] =
                     IF after_push(b) = "collect" THEN "collect" ELSE after_collect(i)]
        /\ echoed' = [echoed EXCEPT ![i] =
                        IF after_push(b) = "collect" THEN @ ELSE @ \o local_print(b)]
    /\ channel' = [channel EXCEPT ![i] = Tail(@)]
    /\ received' = [received EXCEPT ![i] = Append(@, Head(channel[i]))]
    /\ UNCHANGED <<ConfigVars, overflow_mode, enqueued, dropped, sent, ProducerVars,
                   suspended, connected, stream, writes, write_error>>

\* receiver.try_recv() inside `while batch.len() < batch_size`
WorkerTryRecv(i) ==
    /\ wpc[i] = "collect"
    /\ IF channel[i] # <<>>
       THEN LET b == batch_push(batch[i], Head(channel[i])) IN
            /\ batch' = [batch EXCEPT ![i] = b]
            /\ wpc' = [wpc EXCEPT ![i] =
                         IF after_push(b) = "collect" THEN "collect"
                         ELSE after_collect(i)]
            /\ echoed' = [echoed EXCEPT ![i] =
                            IF after_push(b) = "collect" THEN @
                            ELSE @ \o local_print(b)]
            /\ channel' = [channel EXCEPT ![i] = Tail(@)]
            /\ received' = [received EXCEPT ![i] = Append(@, Head(channel[i]))]
       ELSE /\ wpc' = [wpc EXCEPT ![i] = after_collect(i)]
            /\ echoed' = [echoed EXCEPT ![i] = @ \o local_print(batch[i])]
            /\ UNCHANGED <<batch, channel, received>>
    /\ UNCHANGED <<ConfigVars, overflow_mode, enqueued, dropped, sent, ProducerVars,
                   suspended, connected, stream, writes, write_error>>

\* the record of a vectored write that returned Ok(n); retry tells the write
\* inside `if transport.connect().is_ok()` that follows a failed write of the
\* same cycle from every other write
WriteRecord(i, r) ==
    [batch |-> batch[i], n |-> r.n, retry |-> write_error[i] # "none"]

\* Faulty variant of WorkerSend: the `if !connected` block runs after a write
\* that succeeded as well, and writes the batch again.
WorkerSend_then_retry(i) ==
    /\ wpc[i] = "send"
    /\ \E r \in writev(stream[i], batch_bytes(batch[i])) :
        IF writev_send(r)
        THEN /\ sent' = [sent EXCEPT ![i] = @ + Len(batch[i])]
             /\ writes' = [writes EXCEPT ![i] = Append(@, WriteRecord(i, r))]
             /\ UNCHANGED <<connected, write_error>>
        ELSE /\ connected' = [connected EXCEPT ![i] = FALSE]
             /\ write_error' = [write_error EXCEPT ![i] = r.kind]
             /\ UNCHANGED <<sent, writes>>
    /\ wpc' = [wpc EXCEPT ![i] = "reconnect"]
    /\ UNCHANGED <<ConfigVars, overflow_mode, channel, enqueued, dropped, ProducerVars,
                   suspended, stream, received, echoed, batch>>

\* `if connected && !message_bytes.is_empty() { writev_send ... }`
WorkerSend(i) ==
    /\ wpc[i] = "send"
    /\ \E r \in writev(stream[i], batch_bytes(batch[i])) :
        IF writev_send(r)
        THEN /\ sent' = [sent EXCEPT ![i] = @ + Len(batch[i])]
             /\ writes' = [writes EXCEPT ![i] = Append(@, WriteRecord(i, r))]
             /\ batch' = [batch EXCEPT ![i] = <<>>]
             /\ wpc' = [wpc EXCEPT ![i] = "recv"]
             /\ UNCHANGED <<connected, write_error>>
        ELSE /\ connected' = [connected EXCEPT ![i] = FALSE]
             /\ write_error' = [write_error EXCEPT ![i] = r.kind]
             /\ wpc' = [wpc EXCEPT ![i] = "reconnect"]
             /\ UNCHANGED <<sent, writes, batch>>
    /\ UNCHANGED <<ConfigVars, overflow_mode, channel, enqueued, dropped, ProducerVars,
                   suspended, stream, received, echoed>>

\* `eprintln!("DLT writev error ...")` after a failed writev_send when the
\* write to stderr fails: eprintln! panics, the worker thread unwinds and its
\* Receiver is dropped
WorkerPanics(i) ==
    /\ wpc[i] = "send"
    /\ \E r \in writev(stream[i], batch_bytes(batch[i])) : ~writev_send(r)
    /\ wpc' = [wpc EXCEPT ![i] = "panicked"]
    /\ UNCHANGED <<ConfigVars, overflow_mode, channel, enqueued, dropped, sent,
                   ProducerVars, suspended, connected, stream, batch, received,
                   writes, write_error, echoed>>

\* Faulty variant of WorkerConnectFails: the batch goes back to the channel.
WorkerConnectFails_requeue(i) ==
    /\ wpc[i] = "reconnect"
    /\ channel' = [channel EXCEPT ![i] = batch[i] \o @]
    /\ batch' = [batch EXCEPT ![i] = <<>>]
    /\ write_error' = [write_error EXCEPT ![i] = "none"]
    /\ wpc' = [wpc EXCEPT ![i] = "recv"]
    /\ UNCHANGED <<ConfigVars, overflow_mode, enqueued, dropped, sent,
                   ProducerVars, suspended, connected, stream, received, writes, echoed>>

\* `if !connected { if transport.connect().is_ok() { ... retry ... } }`, connect fails
WorkerConnectFails(i) ==
    /\ wpc[i] = "reconnect"
    /\ batch' = [batch EXCEPT ![i] = <<>>]
    /\ write_error' = [write_error EXCEPT ![i] = "none"]
    /\ wpc' = [wpc EXCEPT ![i] = "recv"]
    /\ UNCHANGED <<ConfigVars, overflow_mode, channel, enqueued, dropped, sent,
                   ProducerVars, suspended, connected, stream, received, writes, echoed>>

\* the same block when connect succeeds: a new stream replaces the old one and
\* the batch is written again
WorkerReconnect(i) ==
    /\ wpc[i] = "reconnect"
    /\ connected' = [connected EXCEPT ![i] = TRUE]
    /\ stream' = [stream EXCEPT ![i] = 1]
    /\ \E r \in writev(stream'[i], batch_bytes(batch[i])) :
        IF writev_send(r)
        THEN /\ sent' = [sent EXCEPT ![i] = @ + Len(batch[i])]
             /\ writes' = [writes EXCEPT ![i] =
                             Append(@, WriteRecord(i, r))]
        ELSE UNCHANGED <<sent, writes>>
    /\ batch' = [batch EXCEPT ![i] = <<>>]
    /\ write_error' = [write_error EXCEPT ![i] = "none"]
    /\ wpc' = [wpc EXCEPT ![i] = "recv"]
    /\ UNCHANGED <<ConfigVars, overflow_mode, channel, enqueued, dropped,
                   ProducerVars, suspended, received, echoed>>

\* DltUserState::worker_thread, one step of the loop
worker_thread(i) ==
    \/ WorkerRecv(i)
    \/ WorkerTryRecv(i)
    \/ WorkerSend(i)
    \/ WorkerConnectFails(i)
    \/ WorkerReconnect(i)

\* ---------------------------------------------------------------- local print
\* Faulty variant of dlt_enable_local_print: the envelopes that wait in the
\* channels are printed as well.
dlt_enable_local_print_resident ==
    /\ local_print_enabled' = TRUE
    /\ echoed' = [i \in Buffers |-> echoed[i] \o channel[i]]
    /\ UNCHANGED <<env, num_buffers, buffer_sizes, batch_size, codec, process,
                   SubscriberVars, DaemonVars, overflow_mode, channel, enqueued,
                   dropped, sent, ProducerVars, suspended, wpc, connected,
                   stream, batch, received, writes, write_error>>

\* dlt_enable_local_print
dlt_enable_local_print ==
    /\ local_print_enabled' = TRUE
    /\ UNCHANGED <<env, num_buffers, buffer_sizes, batch_size, codec, process,
                   SubscriberVars, DaemonVars, overflow_mode, channel, enqueued,
                   dropped, sent, ProducerVars, suspended, WorkerVars>>

\* dlt_disable_local_print
dlt_disable_local_print ==
    /\ local_print_enabled' = FALSE
    /\ UNCHANGED <<env, num_buffers, buffer_sizes, batch_size, codec, process,
                   SubscriberVars, DaemonVars, overflow_mode, channel, enqueued,
                   dropped, sent, ProducerVars, suspended, WorkerVars>>

\* ---------------------------------------------------------------- teardown
\* The process exits: DLT_USER is a static that is never dropped and the
\* worker handles are never joined, so no sender is closed and every worker
\* stops where it stands.
ProcessExit ==
    /\ process = "running"
    /\ process' = "exited"
    /\ UNCHANGED <<env, num_buffers, buffer_sizes, batch_size, codec,
                   local_print_enabled, SubscriberVars, DaemonVars,
                   overflow_mode, channel, enqueued, dropped, sent,
                   ProducerVars, suspended, WorkerVars>>

\* ---------------------------------------------------------------- system
\* the application only emits; the mode register keeps its initial value
SteadyNext ==
    \/ \E p \in Producers : Log(p)
    \/ \E p \in Producers : LogExplicit(p)
    \/ \E p \in Producers : EmitStep(p)
    \/ \E i \in Buffers : worker_thread(i)

Next ==
    \/ SteadyNext
    \/ \E p \in Producers : Suspend(p)
    \/ SetOverflowMode

Spec == Init /\ [][Next]_vars

SteadySpec == SteadyInit /\ [][SteadyNext]_vars

\* Producer threads are scheduled and the wait of send_timeout ends at its
\* deadline; nothing is assumed about the worker or the collector.
FairSpec == SteadySpec /\ \A p \in Producers : WF_vars(EmitStep(p))

\* the rings of the configurations explored
Rings == UNION {0..(n - 1) : n \in BufferCounts}

\* The worker threads are scheduled; nothing is assumed about the producers
\* (no further emit need occur) or about the collector.
WorkerFairSpec == SteadySpec /\ \A i \in Rings : WF_vars(worker_thread(i))

\* the application emits and switches local printing on and off
LocalPrintNext ==
    \/ SteadyNext
    \/ dlt_enable_local_print
    \/ dlt_disable_local_print

LocalPrintSpec == SteadyInit /\ [][LocalPrintNext]_vars

\* the application emits while stderr is closed: a worker whose write fails
\* panics in eprintln!, and later emits find its channel disconnected
DisconnectNext ==
    \/ SteadyNext
    \/ \E i \in Buffers : WorkerPanics(i)
    \/ \E p \in Producers : EnqueueDisconnected(p)

DisconnectSpec == SteadyInit /\ [][DisconnectNext]_vars

\* the application emits until the process exits
TeardownNext ==
    \/ process = "running" /\ SteadyNext
    \/ ProcessExit

TeardownSpec == SteadyInit /\ [][TeardownNext]_vars

\* Routing by level: 1..MaxBuffers buffers of capacity one, every emit goes
\* through DltContext::log, the mode register changes at any time.
RoutingInit ==
    /\ env \in Environments(1..MaxBuffers, {1}, {1}, {<<>>}, {<<>>})
    /\ Configured
    /\ Constructed

RoutingNext ==
    \/ \E p \in Producers : Log(p)
    \/ \E p \in Producers : EmitStep(p)
    \/ \E i \in Buffers : worker_thread(i)
    \/ SetOverflowMode

RoutingSpec == RoutingInit /\ [][RoutingNext]_vars

\* Every setting the parser accepts or falls back from: no buffer at all or
\* one of capacity one, a batch size of zero, DLT_USER_OVERFLOW_MODE unset, valid (1, 2), a u8 that is
\* no mode (3) and text that is no u8 (256).
EnvInit ==
    /\ env \in Environments(0..1, {1}, 0..MaxBatchSize,
                            {<<>>, <<1>>, <<2>>, <<3>>, <<256>>}, {<<>>})
    /\ Configured
    /\ Constructed

EnvNext ==
    \/ SteadyNext
    \/ SetOverflowMode

EnvSpec == EnvInit /\ [][EnvNext]_vars

\* Emitting again after a failure: one buffer of capacity one, batches of
\* one, each of the three modes, up to MaxRetryEmits emits.
RetryInit ==
    /\ env \in Environments({1}, {1}, {1}, Some({0, 1, 2}), {<<>>})
    /\ Configured
    /\ Constructed

\* DltContext::log_to_buffer with Some(buffer_id), valid or not
RetryLog(p) ==
    \E id \in 0..num_buffers :
        \/ Len(emits) < MaxRetryEmits /\ StartEmit(p, id)
        \/ LogToInvalidBuffer(p, id)

RetryNext ==
    \/ \E p \in Producers : RetryLog(p)
    \/ \E p \in Producers : EmitStep(p)
    \/ \E i \in Buffers : worker_thread(i)

RetrySpec == RetryInit /\ [][RetryNext]_vars

\* env::set_var(name, value) by the application, at any time after init
set_var(name, value) ==
    /\ env' = CASE name = "DLT_USER_NUM_BUFFERS" -> [env EXCEPT !.num_buffers = <<value>>]
                 [] name = "DLT_USER_BUFFER_SIZE_0" ->
                        [env EXCEPT !.buffer_size = [i \in DOMAIN @ \cup {0} |->
                                                       IF i = 0 THEN <<value>> ELSE @[i]]]
                 [] name = "DLT_USER_BATCH_SIZE" -> [env EXCEPT !.batch_size = <<value>>]
                 [] name = "DLT_USER_OVERFLOW_MODE" -> [env EXCEPT !.overflow_mode = <<value>>]
                 [] name = "DLT_USER_TIMEOUT_MS" -> [env EXCEPT !.timeout_ms = <<value>>]
    /\ UNCHANGED <<num_buffers, buffer_sizes, batch_size, overflow_mode,
                   local_print_enabled, process, channel,
                   enqueued, dropped, sent, ProducerVars, suspended, WorkerVars,
                   codec, SubscriberVars, DaemonVars>>

\* the settings the application writes after init
SetVar ==
    \/ set_var("DLT_USER_NUM_BUFFERS", 2)
    \/ set_var("DLT_USER_BUFFER_SIZE_0", 2)
    \/ set_var("DLT_USER_BATCH_SIZE", 2)
    \/ set_var("DLT_USER_OVERFLOW_MODE", 1)
    \/ set_var("DLT_USER_TIMEOUT_MS", 50)

\* Changing the environment after init: one buffer of capacity one, batches
\* of one, DLT_USER_TIMEOUT_MS not set when the library initialises.
ReconfigInit ==
    /\ env \in Environments({1}, {1}, {1}, Some({0, 2}), {<<>>})
    /\ Configured
    /\ Constructed

ReconfigNext ==
    \/ SteadyNext
    \/ SetVar

ReconfigSpec == ReconfigInit /\ [][ReconfigNext]_vars

\* ---------------------------------------------------------------- codec
\* src/core/protocol.rs.  A byte is a number in 0..255, a byte string a sequence.
\* Faulty variant of to_le_bytes: most significant byte first.
RECURSIVE to_be_bytes(_, _)
to_be_bytes(x, n) ==
    IF n = 0 THEN <<>> ELSE Append(to_be_bytes(x \div 256, n - 1), x % 256)

\* u16::to_le_bytes (n = 2), u32::to_le_bytes (n = 4)
RECURSIVE to_le_bytes(_, _)
to_le_bytes(x, n) ==
    IF n = 0 THEN <<>> ELSE <<x % 256>> \o to_le_bytes(x \div 256, n - 1)

\* u16::from_le_bytes, u32::from_le_bytes
RECURSIVE from_le_bytes(_)
from_le_bytes(b) ==
    IF b = <<>> THEN 0 ELSE Head(b) + 256 * from_le_bytes(Tail(b))

\* `x as u16`, `x as u32`: the value less its part above the width
as_u16(x) == x - (x \div 65536) * 65536
as_u32(x) == x - ((x \div 65536) \div 65536) * 65536 * 65536

\* &bytes[a..b] and &bytes[a..] (offsets from 0, end excluded)
Slice(bytes, a, b) == SubSeq(bytes, a + 1, b)
SliceFrom(bytes, a) == SubSeq(bytes, a + 1, Len(bytes))

\* DltStorageHeader::new(ecu) at the time now = [secs, micros]
DltStorageHeader_new(ecu, now) ==
    [pattern |-> <<68, 76, 84, 1>>,
     seconds |-> as_u32(now.secs),
     microseconds |-> now.micros,
     ecu |-> ecu]

\* DltStorageHeader::to_bytes
DltStorageHeader_to_bytes(h) ==
    h.pattern \o to_le_bytes(h.seconds, 4) \o to_le_bytes(h.microseconds, 4) \o h.ecu

\* DltStorageHeader::from_bytes
DltStorageHeader_from_bytes(bytes) ==
    IF Len(bytes) < 16 THEN <<>>
    ELSE <<[pattern |-> Slice(bytes, 0, 4),
            seconds |-> from_le_bytes(Slice(bytes, 4, 8)),
            microseconds |-> from_le_bytes(Slice(bytes, 8, 12)),
            ecu |-> Slice(bytes, 12, 16)]>>

\* DltStandardHeader::new
DltStandardHeader_new(has_extended, mcnt, len) ==
    [htyp |-> IF has_extended THEN 53 ELSE 33, mcnt |-> mcnt, len |-> len]

\* DltStandardHeader::to_bytes
DltStandardHeader_to_bytes(h) == <<h.htyp, h.mcnt>> \o to_le_bytes(h.len, 2)

\* DltStandardHeader::from_bytes
DltStandardHeader_from_bytes(bytes) ==
    IF Len(bytes) < 4 THEN <<>>
    ELSE <<[htyp |-> bytes[1], mcnt |-> bytes[2],
            len |-> from_le_bytes(Slice(bytes, 2, 4))]>>

\* DltExtendedHeader::new
DltExtendedHeader_new(apid, ctid, noar) ==
    [msin |-> 1, noar |-> noar, apid |-> apid, ctid |-> ctid]

\* DltExtendedHeader::to_bytes
DltExtendedHeader_to_bytes(h) == <<h.msin, h.noar>> \o h.apid \o h.ctid

\* DltExtendedHeader::from_bytes
DltExtendedHeader_from_bytes(bytes) ==
    IF Len(bytes) < 10 THEN <<>>
    ELSE <<[msin |-> bytes[1], noar |-> bytes[2],
            apid |-> Slice(bytes, 2, 6), ctid |-> Slice(bytes, 6, 10)]>>

\* DltMessage::new_verbose
new_verbose(ecu, apid, ctid, message, now) ==
    LET payload == <<0, 0, 0, 33>> \o to_le_bytes(as_u16(Len(message) + 1), 2)
                   \o message \o <<0>>
        total_len == 4 + 10 + Len(payload) IN
    [storage_header |-> DltStorageHeader_new(ecu, now),
     standard_header |-> DltStandardHeader_new(TRUE, 0, as_u16(total_len)),
     extended_header |-> <<DltExtendedHeader_new(apid, ctid, 1)>>,
     payload |-> payload]

\* DltMessage::to_bytes
DltMessage_to_bytes(m) ==
    DltStorageHeader_to_bytes(m.storage_header)
    \o DltStandardHeader_to_bytes(m.standard_header)
    \o (IF m.extended_header # <<>>
        THEN DltExtendedHeader_to_bytes(m.extended_header[1]) ELSE <<>>)
    \o m.payload

\* DltMessage::from_bytes
DltMessage_from_bytes(bytes) ==
    IF Len(bytes) < 20 THEN <<>>
    ELSE LET storage_header == DltStorageHeader_from_bytes(Slice(bytes, 0, 16))[1]
             standard_header == DltStandardHeader_from_bytes(Slice(bytes, 16, 20))[1]
             has_extended == standard_header.htyp % 2 # 0 IN
         IF has_extended /\ Len(bytes) < 30 THEN <<>>
         ELSE <<[storage_header |-> storage_header,
                 standard_header |-> standard_header,
                 extended_header |-> IF has_extended
                     THEN DltExtendedHeader_from_bytes(Slice(bytes, 20, 30))
                     ELSE <<>>,
                 payload |-> SliceFrom(bytes, IF has_extended THEN 30 ELSE 20)]>>

\* EcuId::new, AppId::new, ContextId::new: the first four bytes, zero padded
Id(s) == [k \in 1..4 |-> IF k <= Len(s) THEN s[k] ELSE 0]

\* the ids explored: "ECU1", "A" and the empty string
Ids == {Id(<<69, 67, 85, 49>>), Id(<<65>>), Id(<<>>)}

\* the longest text whose length still fits the u16 of the payload
U16_MAX == 65535

\* message texts: every string of at most MaxMessageLen bytes over "A" and NUL,
\* and one text long enough for `(message.len() + 1) as u16` and
\* `total_len as u16` to wrap
Messages ==
    UNION {[1..n -> {0, 65}] : n \in 0..MaxMessageLen}
    \cup {[k \in 1..U16_MAX |-> 65]}

\* SystemTime::now(): the epoch, and a time whose seconds and microseconds
\* fill several bytes with different values
Times == {[secs |-> 0, micros |-> 0], [secs |-> 16909060, micros |-> 999999]}

\* a producer builds a frame
NewVerbose ==
    /\ codec = <<>>
    /\ \E ecu \in Ids, apid \in Ids, ctid \in Ids, message \in Messages, now \in Times :
        codec' = <<new_verbose(ecu, apid, ctid, message, now)>>
    /\ UNCHANGED <<env, num_buffers, buffer_sizes, batch_size, overflow_mode,
                   local_print_enabled, process,
                   channel, enqueued, dropped, sent, ProducerVars, suspended,
                   WorkerVars, SubscriberVars, DaemonVars>>

\* the worker serializes it
Encode ==
    /\ Len(codec) = 1
    /\ codec' = Append(codec, DltMessage_to_bytes(codec[1]))
    /\ UNCHANGED <<env, num_buffers, buffer_sizes, batch_size, overflow_mode,
                   local_print_enabled, process,
                   channel, enqueued, dropped, sent, ProducerVars, suspended,
                   WorkerVars, SubscriberVars, DaemonVars>>

\* a reader parses the bytes
Decode ==
    /\ Len(codec) = 2
    /\ codec' = Append(codec, DltMessage_from_bytes(codec[2]))
    /\ UNCHANGED <<env, num_buffers, buffer_sizes, batch_size, overflow_mode,
                   local_print_enabled, process,
                   channel, enqueued, dropped, sent, ProducerVars, suspended,
                   WorkerVars, SubscriberVars, DaemonVars>>

\* Display for an unsigned number: its decimal digits in ASCII
RECURSIVE digits(_)
digits(n) == IF n < 10 THEN <<48 + n>> ELSE Append(digits(n \div 10), 48 + (n % 10))

\* Display for i32 (`{}`): a minus sign for a negative number, then the digits
fmt_i32(num) == IF num < 0 THEN <<45>> \o digits(0 - num) ELSE digits(num)

\* format!("{} {}", num, message) in log_to_buffer
format_payload(num, message) == fmt_i32(num) \o <<32>> \o message

\* str::trim_end_matches('\0')
RECURSIVE trim_end_nul(_)
trim_end_nul(s) ==
    IF s # <<>> /\ s[Len(s)] = 0 THEN trim_end_nul(SubSeq(s, 1, Len(s) - 1)) ELSE s

\* String::from_utf8_lossy on the texts explored, which are ASCII: a byte below
\* 128 is the character with that code; a byte of 128 or more that stands
\* alone is not valid UTF-8 and is replaced by U+FFFD
from_utf8_lossy(bytes) ==
    [k \in 1..Len(bytes) |-> IF bytes[k] < 128 THEN bytes[k] ELSE 65533]

\* Faulty variant of extract_string_payload: the terminating NUL is kept.
extract_string_payload_keeps_nul(m) ==
    IF Len(m.payload) > 6 THEN <<from_utf8_lossy(SliceFrom(m.payload, 6))>> ELSE <<>>

\* DltMessage::extract_string_payload
extract_string_payload(m) ==
    IF Len(m.payload) > 6
    THEN <<trim_end_nul(from_utf8_lossy(SliceFrom(m.payload, 6)))>>
    ELSE <<>>

\* the texts "ECU1", "LOG", "TEST", "Hello" and "0 Hello" as bytes
ECU1 == <<69, 67, 85, 49>>
LOG == <<76, 79, 71>>
TEST == <<84, 69, 83, 84>>
Hello == <<72, 101, 108, 108, 111>>
ZeroHello == <<48, 32, 72, 101, 108, 108, 111>>

\* the numbers and texts a context emits
Nums == {0, 7, 0 - 12, 305}
Texts == {Hello, <<>>, <<65>>}

\* DltContext::log_to_buffer up to the construction of the frame, on a context
\* with ids app_id, ctx_id and ECU id ecu_id
LogFrame ==
    /\ codec = <<>>
    /\ \E ecu_id \in {Id(ECU1)}, app_id \in {Id(LOG), Id(<<65>>)},
          ctx_id \in {Id(TEST), Id(<<65>>)}, num \in Nums, message \in Texts,
          now \in Times :
        LET payload == format_payload(num, message) IN
        codec' = <<new_verbose(ecu_id, app_id, ctx_id, payload, now)>>
    /\ UNCHANGED <<env, num_buffers, buffer_sizes, batch_size, overflow_mode,
                   local_print_enabled, process,
                   channel, enqueued, dropped, sent, ProducerVars, suspended,
                   WorkerVars, SubscriberVars, DaemonVars>>

\* buffers a reader may hand to from_bytes in place of the serialized frame:
\* the frame with the first byte of its storage pattern changed ("\0LT\x01"),
\* and the frame cut to 0, 19, 20, 29, 30 and all but one of its bytes
Damaged(bytes) ==
    {[bytes EXCEPT ![1] = 0]}
    \cup {SubSeq(bytes, 1, n) : n \in {0, 19, 20, 29, 30, Len(bytes) - 1}}

\* a reader parses a buffer that is not the serialized frame
DecodeDamaged ==
    /\ Len(codec) = 2
    /\ \E buffer \in Damaged(codec[2]) :
        codec' = codec \o <<buffer, DltMessage_from_bytes(buffer)>>
    /\ UNCHANGED <<env, num_buffers, buffer_sizes, batch_size, overflow_mode,
                   local_print_enabled, process,
                   channel, enqueued, dropped, sent, ProducerVars, suspended,
                   WorkerVars, SubscriberVars, DaemonVars>>

CodecInit ==
    /\ env \in Environments({1}, {1}, {1}, {<<>>}, {<<>>})
    /\ Configured
    /\ Constructed

CodecNext == NewVerbose \/ LogFrame \/ Encode \/ Decode \/ DecodeDamaged

CodecSpec == CodecInit /\ [][CodecNext]_vars

\* ---------------------------------------------------------------- subscriber client
\* src/client/mod.rs and src/client/main.rs.
\* MaxFrames bounds the frames the daemon serves on one connection.
MaxFrames == 2

\* the concatenation of a sequence of byte strings
RECURSIVE Concat(_)
Concat(ss) == IF ss = <<>> THEN <<>> ELSE Head(ss) \o Concat(Tail(ss))

\* frames as the library emits them: new_verbose, then to_bytes
ServedFrames ==
    {DltMessage_to_bytes(new_verbose(Id(ECU1), Id(LOG), Id(TEST), message,
                                     [secs |-> 16909060, micros |-> 999999])) :
        message \in {format_payload(0, Hello), <<65>>, <<>>}}

\* bytes on the connection that belong to no frame: none, or twenty zero bytes
Junk == {<<>>, [k \in 1..20 |-> 0]}

\* everything the daemon writes on the connection, and the part of it the
\* client has read so far
Served == tcp.junk \o Concat(tcp.frames)
Arrived == SubSeq(Served, 1, tcp.pos)

\* TcpStream::read into the 65536-byte `buffer`: Ok(n) with some of the bytes
\* not yet read (at least one, at most the buffer), Ok(0) once the daemon has
\* written everything and closed, or an error at any time
BUFFER_LEN == 65536
read ==
    {[kind |-> "Ok", bytes |-> SubSeq(Served, tcp.pos + 1, tcp.pos + n)] :
        n \in 1..(IF Len(Served) - tcp.pos < BUFFER_LEN
                  THEN Len(Served) - tcp.pos ELSE BUFFER_LEN)}
    \cup (IF tcp.pos = Len(Served) THEN {[kind |-> "Ok", bytes |-> <<>>]} ELSE {})
    \cup {[kind |-> "Err", bytes |-> <<>>]}

\* Faulty variant of drain: the processed bytes stay in pending_data.
drain_nothing(pending_data, offset) == pending_data

\* `if offset > 0 { self.pending_data.drain(0..offset) }`
drain(pending_data, offset) ==
    IF offset > 0 THEN SliceFrom(pending_data, offset) ELSE pending_data

\* the `while offset < self.pending_data.len()` loop of receive_messages from
\* the given offset on: the final offset, the messages pushed, and (history)
\* for every candidate from_bytes refused, the bytes the offset moved by
RECURSIVE framing(_, _, _, _)
framing(pending_data, offset, messages, skipped) ==
    LET stop == [offset |-> offset, messages |-> messages, skipped |-> skipped] IN
    IF ~(offset < Len(pending_data)) THEN stop
    ELSE IF Len(pending_data) - offset < 20 THEN stop
    ELSE LET std_len == from_le_bytes(<<pending_data[offset + 18 + 1],
                                        pending_data[offset + 19 + 1]>>)
             total_len == 16 + std_len IN
         IF offset + total_len > Len(pending_data) THEN stop
         ELSE LET msg == DltMessage_from_bytes(
                             Slice(pending_data, offset, offset + total_len)) IN
              framing(pending_data, offset + total_len,
                      IF msg # <<>> THEN Append(messages, msg[1]) ELSE messages,
                      IF msg # <<>> THEN skipped ELSE Append(skipped, total_len))

\* DltClient::receive_messages on the read result r: the value returned, the
\* new pending_data and the moves past refused candidates
receive_messages(pending_data, r) ==
    IF r.kind = "Err"
    THEN [kind |-> "Err", messages |-> <<>>, pending_data |-> pending_data,
          skipped |-> <<>>]
    ELSE IF r.bytes = <<>>
    THEN [kind |-> "Ok", messages |-> <<>>, pending_data |-> pending_data,
          skipped |-> <<>>]
    ELSE LET extended == pending_data \o r.bytes
             parsed == framing(extended, 0, <<>>, <<>>) IN
         [kind |-> "Ok", messages |-> parsed.messages,
          pending_data |-> drain(extended, parsed.offset),
          skipped |-> parsed.skipped]

\* DltClient::connect: nothing pending; the histories are empty
DltClient_connect ==
    [pending_data |-> <<>>,
     pc |-> "receiving",     \* main: inside the loop, or "closed" / "error" after break
     last |-> "none",        \* history: what the last read returned
     messages |-> <<>>,      \* history: every message returned so far
     printed |-> <<>>,       \* history: every message main has printed
     skipped |-> <<>>]       \* history: every move past a refused candidate

\* the histories after a call whose read returned r and which returned ret
recorded(r, ret) ==
    [client EXCEPT !.pending_data = ret.pending_data,
                   !.last = IF r.kind = "Err" THEN "Err"
                            ELSE IF r.bytes = <<>> THEN "Eof" ELSE "Bytes",
                   !.messages = @ \o ret.messages,
                   !.skipped = @ \o ret.skipped]

\* a caller of the library calls receive_messages, and calls again whatever
\* it returned
Receive ==
    /\ client.last # "Err"
    /\ \E r \in read :
        LET ret == receive_messages(client.pending_data, r) IN
        /\ client' = recorded(r, ret)
        /\ tcp' = [tcp EXCEPT !.pos = @ + Len(r.bytes)]
    /\ UNCHANGED <<env, num_buffers, buffer_sizes, batch_size, overflow_mode,
                   local_print_enabled, process,
                   channel, enqueued, dropped, sent, ProducerVars, suspended,
                   WorkerVars, codec, DaemonVars>>

\* one turn of the loop of main (dlt-receive): receive_messages, then print
\* every message, or break on an empty list or an error
MainLoop ==
    /\ client.pc = "receiving"
    /\ \E r \in read :
        LET ret == receive_messages(client.pending_data, r) IN
        /\ client' = [recorded(r, ret) EXCEPT
                        !.pc = IF ret.kind = "Err" THEN "error"
                               ELSE IF ret.messages = <<>> THEN "closed"
                               ELSE "receiving",
                        !.printed = @ \o ret.messages]
        /\ tcp' = [tcp EXCEPT !.pos = @ + Len(r.bytes)]
    /\ UNCHANGED <<env, num_buffers, buffer_sizes, batch_size, overflow_mode,
                   local_print_enabled, process,
                   channel, enqueued, dropped, sent, ProducerVars, suspended,
                   WorkerVars, codec, DaemonVars>>

\* a client connected to a daemon that serves at most MaxFrames frames,
\* possibly after bytes that belong to no frame
ClientInit ==
    /\ env \in Environments({1}, {1}, {1}, {<<>>}, {<<>>})
    /\ Configured
    /\ DltUserState_new
    /\ NoDaemon
    /\ tcp \in [junk : Junk,
                frames : UNION {[1..n -> ServedFrames] : n \in 0..MaxFrames},
                pos : {0}]
    /\ client = DltClient_connect

ClientNext == Receive

ClientSpec == ClientInit /\ [][ClientNext]_vars

\* dlt-receive
ReceiveNext == MainLoop

ReceiveSpec == ClientInit /\ [][ReceiveNext]_vars

\* ---------------------------------------------------------------- daemon
\* src/daemon/main.rs and src/buffer/lockless.rs.
\* MaxChunks bounds the chunks read while subscribers are served; MaxExcess
\* bounds the chunks read beyond the capacity of the shuttle.
MaxChunks == 3
MaxExcess == 2

\* LocklessBuffer::new(1024)
SHUTTLE_CAPACITY == 1024

Connections == {"c1", "c2"}
Subscribers == {"s1", "s2"}

\* Faulty variant of pop: the item stays in the queue.
pop_keeps_item(queue) ==
    IF queue = <<>> THEN [item |-> <<>>, queue |-> queue]
    ELSE [item |-> <<Head(queue)>>, queue |-> queue]

\* LocklessBuffer::push (ArrayQueue::push): Err(item) when the queue is full
push(queue, item) ==
    IF Len(queue) < SHUTTLE_CAPACITY
    THEN [ok |-> TRUE, queue |-> Append(queue, item)]
    ELSE [ok |-> FALSE, queue |-> queue]

\* LocklessBuffer::pop (ArrayQueue::pop): None when the queue is empty
pop(queue) ==
    IF queue = <<>> THEN [item |-> <<>>, queue |-> queue]
    ELSE [item |-> <<Head(queue)>>, queue |-> Tail(queue)]

\* the k-th chunk read from the producers: `buf[..n].to_vec()`; the producers
\* write a running counter, two bytes at a time; id tells chunks apart
chunk_read(k) == [id |-> k, bytes |-> to_le_bytes(k, 2)]

\* main before any connection: an empty shuttle, no thread spawned
DaemonStarted ==
    /\ log_buffer = <<>>
    /\ collector = [c \in Connections |-> "absent"]
    /\ subscriber = [t \in Subscribers |-> [pc |-> "absent", log_msg |-> <<>>]]
    /\ ingress = <<>>
    /\ egress = <<>>

\* listener.incoming() of the Unix socket yields a connection: a thread is
\* spawned for it
CollectorAccept(c) ==
    /\ collector[c] = "absent"
    /\ collector' = [collector EXCEPT ![c] = "reading"]
    /\ UNCHANGED <<log_buffer, subscriber, ingress, egress>>
    /\ UNCHANGED <<env, num_buffers, buffer_sizes, batch_size, overflow_mode,
                   local_print_enabled, process,
                   channel, enqueued, dropped, sent, ProducerVars, suspended,
                   WorkerVars, codec, SubscriberVars>>

\* one turn of the loop of a collector thread: stream.read, then on Ok(n)
\* `let _ = buffer.push(msg)`, on Ok(0) or Err break
CollectorRead(c) ==
    /\ collector[c] = "reading"
    /\ \/ LET msg == chunk_read(Len(ingress) + 1) IN
          /\ ingress' = Append(ingress, msg)
          /\ log_buffer' = push(log_buffer, msg).queue
          /\ UNCHANGED collector
       \/ /\ collector' = [collector EXCEPT ![c] = "closed"]
          /\ UNCHANGED <<log_buffer, ingress>>
    /\ UNCHANGED <<subscriber, egress>>
    /\ UNCHANGED <<env, num_buffers, buffer_sizes, batch_size, overflow_mode,
                   local_print_enabled, process,
                   channel, enqueued, dropped, sent, ProducerVars, suspended,
                   WorkerVars, codec, SubscriberVars>>

\* listener.incoming() of the TCP socket yields a subscriber: a task is spawned
SubscriberAccept(t) ==
    /\ subscriber[t].pc = "absent"
    /\ subscriber' = [subscriber EXCEPT ![t].pc = "pop"]
    /\ UNCHANGED <<log_buffer, collector, ingress, egress>>
    /\ UNCHANGED <<env, num_buffers, buffer_sizes, batch_size, overflow_mode,
                   local_print_enabled, process,
                   channel, enqueued, dropped, sent, ProducerVars, suspended,
                   WorkerVars, codec, SubscriberVars>>

\* `if let Some(log_msg) = buffer.pop()`, else thread::sleep
SubscriberPop(t) ==
    /\ subscriber[t].pc \in {"pop", "sleep"}
    /\ LET popped == pop(log_buffer) IN
       /\ log_buffer' = popped.queue
       /\ subscriber' = [subscriber EXCEPT ![t] =
              IF popped.item = <<>> THEN [pc |-> "sleep", log_msg |-> <<>>]
              ELSE [pc |-> "write", log_msg |-> popped.item]]
    /\ UNCHANGED <<collector, ingress, egress>>
    /\ UNCHANGED <<env, num_buffers, buffer_sizes, batch_size, overflow_mode,
                   local_print_enabled, process,
                   channel, enqueued, dropped, sent, ProducerVars, suspended,
                   WorkerVars, codec, SubscriberVars>>

\* `stream.write_all(&log_msg)`: all bytes written, or an error (the task
\* ends; some of the bytes may have been written)
SubscriberWrite(t) ==
    /\ subscriber[t].pc = "write"
    /\ \E ok \in BOOLEAN :
        /\ egress' = Append(egress, [to |-> t, chunk |-> subscriber[t].log_msg[1],
                                     ok |-> ok])
        /\ subscriber' = [subscriber EXCEPT ![t] =
               [pc |-> IF ok THEN "pop" ELSE "exited", log_msg |-> <<>>]]
    /\ UNCHANGED <<log_buffer, collector, ingress>>
    /\ UNCHANGED <<env, num_buffers, buffer_sizes, batch_size, overflow_mode,
                   local_print_enabled, process,
                   channel, enqueued, dropped, sent, ProducerVars, suspended,
                   WorkerVars, codec, SubscriberVars>>

\* the daemon, with producers and subscribers connecting at any time
DaemonInit ==
    /\ env \in Environments({1}, {1}, {1}, {<<>>}, {<<>>})
    /\ Configured
    /\ DltUserState_new
    /\ NoClient
    /\ DaemonStarted

DaemonNext ==
    \/ \E c \in Connections : CollectorAccept(c)
    \/ \E c \in Connections : Len(ingress) < MaxChunks /\ CollectorRead(c)
    \/ \E t \in Subscribers : SubscriberAccept(t)
    \/ \E t \in Subscribers : SubscriberPop(t)
    \/ \E t \in Subscribers : SubscriberWrite(t)

DaemonSpec == DaemonInit /\ [][DaemonNext]_vars

\* the daemon while no subscriber is connected: the shuttle only fills
CollectorNext ==
    \/ \E c \in Connections : CollectorAccept(c)
    \/ \E c \in Connections :
        Len(ingress) < SHUTTLE_CAPACITY + MaxExcess /\ CollectorRead(c)

CollectorSpec == DaemonInit /\ [][CollectorNext]_vars

\* ---------------------------------------------------------------- observations
\* the emits routed to buffer i, by envelope id (ids are given in start order)
IdsOf(i) == {k \in 1..Len(emits) : emits[k].buffer_id = i}

\* every emit to buffer i started after the previous emit to it had returned
Sequential(i) == \A k \in IdsOf(i) : \A j \in IdsOf(i) : j < k => j \in emits[k].before

\* every emit to buffer i has returned
AllReturned(i) == IdsOf(i) \subseteq CompletedEmits

\* the ids of S in increasing order
RECURSIVE Ascending(_)
Ascending(S) ==
    IF S = {} THEN <<>>
    ELSE LET m == CHOOSE x \in S : \A y \in S : x <= y IN <<m>> \o Ascending(S \ {m})

FirstN(q, n) == SubSeq(q, 1, n)
LastN(q, n) == SubSeq(q, Len(q) - n + 1, Len(q))

\* no emit in progress and worker i back at receiver.recv()
Quiescent(i) == (\A p \in Producers : pc[p] = "idle") /\ wpc[i] = "recv"

RECURSIVE IsSubSeq(_, _)
IsSubSeq(a, b) ==
    IF a = <<>> THEN TRUE
    ELSE IF b = <<>> THEN FALSE
    ELSE IF Head(a) = Head(b) THEN IsSubSeq(Tail(a), Tail(b))
    ELSE IsSubSeq(a, Tail(b))

\* ---------------------------------------------------------------- claims
\* C1: in Overwrite mode, with capacity C and no dequeue, after k >= C emits the
\* ring holds exactly the C most recently emitted envelopes in emit order, and
\* every displacement counted one drop.  (Stated as claimed; the code keeps the
\* C oldest, see try_send.)
C1_OverwriteKeepsNewest ==
    \A i \in Buffers :
        (/\ overflow_mode = 0
         /\ received[i] = <<>>
         /\ Sequential(i) /\ AllReturned(i)
         /\ Cardinality(IdsOf(i)) >= buffer_sizes[i])
        => /\ channel[i] = LastN(Ascending(IdsOf(i)), buffer_sizes[i])
           /\ dropped[i] = Cardinality(IdsOf(i)) - buffer_sizes[i]

\* C2: at every quiescent point, enqueued == sent + dropped + resident, per ring.
\* (Stated as claimed.)
C2_CounterConservation ==
    \A i \in Buffers :
        Quiescent(i) => enqueued[i] = sent[i] + dropped[i] + Len(channel[i])

\* C4: in DropNewest mode an emit that finds the ring full leaves the resident
\* envelopes and their order unchanged, returns an error and increments the
\* ring's dropped counter by exactly one (and no other counter).
C4_DropNewestStep(p) ==
    LET i == envelope[p].buffer_id IN
    /\ (/\ pc[p] = "send" /\ envelope[p].mode = 1
        /\ Len(channel[i]) >= buffer_sizes[i]
        /\ pc'[p] # pc[p])
       => /\ pc'[p] = "count_dropped"
          /\ channel' = channel
          /\ dropped' = dropped /\ enqueued' = enqueued
    /\ (/\ pc[p] = "count_dropped" /\ envelope[p].mode = 1
        /\ pc'[p] # pc[p])
       => /\ pc'[p] = "idle" /\ result'[p] = "err"
          /\ channel' = channel
          /\ dropped' = [dropped EXCEPT ![i] = @ + 1]
          /\ enqueued' = enqueued

C4_DropNewestDiscards == [][\A p \in Producers : C4_DropNewestStep(p)]_vars

\* C4 witness: a DropNewest emit got Full from a full ring and is about to count it
C4_Witness ==
    \E p \in Producers :
        /\ pc[p] = "count_dropped" /\ envelope[p].mode = 1
        /\ Len(channel[envelope[p].buffer_id]) = buffer_sizes[envelope[p].buffer_id]
        /\ envelope[p].id \notin
             {channel[envelope[p].buffer_id][k] : k \in 1..Len(channel[envelope[p].buffer_id])}

\* C6: in every reachable state the number of envelopes resident in ring i is at
\* most its configured capacity.
C6_BoundedResidency == \A i \in Buffers : Len(channel[i]) <= buffer_sizes[i]

\* C6 witness: a ring filled to its capacity has turned an emit away
C6_Witness == \E i \in Buffers : Len(channel[i]) = buffer_sizes[i] /\ dropped[i] > 0

\* ---------------------------------------------------------------- the wire
\* DltMessage::to_bytes of envelope id: FrameLen bytes, each tagged with its frame
to_bytes(id) == [o \in 1..FrameLen |-> <<id, o>>]

RECURSIVE Flatten(_)
Flatten(b) == IF b = <<>> THEN <<>> ELSE to_bytes(Head(b)) \o Flatten(Tail(b))

\* the bytes a vectored write that returned Ok(n) put on the stream
Written(w) == SubSeq(Flatten(w.batch), 1, w.n)

\* the envelopes whose frames that write transferred completely
CompleteFrames(w) == SubSeq(w.batch, 1, w.n \div FrameLen)

RECURSIVE Wire(_)
Wire(ws) == IF ws = <<>> THEN <<>> ELSE Written(Head(ws)) \o Wire(Tail(ws))

RECURSIVE WireFrames(_)
WireFrames(ws) ==
    IF ws = <<>> THEN <<>> ELSE CompleteFrames(Head(ws)) \o WireFrames(Tail(ws))

\* emit x returned before emit y started
HappensBefore(x, y) == x \in emits[y].before

\* a sequence of envelope ids never places y before x when x happens-before y
RespectsEmitOrder(q) ==
    \A a \in 1..Len(q) : \A b \in 1..Len(q) : a < b => ~HappensBefore(q[b], q[a])

C5_TimeoutStep(p) ==
    LET i == envelope[p].buffer_id IN
    /\ (pc[p] = "wait" /\ pc'[p] = "count_dropped")
       => /\ Len(channel[i]) >= buffer_sizes[i]
          /\ channel' = channel
          /\ dropped' = dropped /\ enqueued' = enqueued
    /\ (pc[p] = "count_dropped" /\ envelope[p].mode = 2 /\ pc'[p] # pc[p])
       => /\ pc'[p] = "idle" /\ result'[p] = "err"
          /\ channel' = channel
          /\ dropped' = [dropped EXCEPT ![i] = @ + 1]
          /\ enqueued' = enqueued

C5_BlockWithTimeoutReturns ==
    /\ [][\A p \in Producers : C5_TimeoutStep(p)]_vars
    /\ \A p \in Producers :
        (pc[p] # "idle" /\ envelope[p].mode = 2) ~> (pc[p] = "idle")

\* C5 witness: a BlockWithTimeout emit waited on a full ring and timed out
C5_Witness ==
    \E p \in Producers :
        /\ pc[p] = "count_dropped" /\ envelope[p].mode = 2
        /\ Len(channel[envelope[p].buffer_id]) = buffer_sizes[envelope[p].buffer_id]

\* C7: the frames written completely to the wire of a ring appear in dequeue
\* order, and dequeue order never places y before x when emit x returned before
\* emit y started: wire order = dequeue order = emit order of the survivors.
C7_WireOrderIsEmitOrder ==
    \A i \in Buffers :
        /\ IsSubSeq(WireFrames(writes[i]), received[i])
        /\ RespectsEmitOrder(received[i] \o channel[i])
        /\ RespectsEmitOrder(WireFrames(writes[i]))

\* C7 witness: two frames of emits ordered by happens-before are both on the wire
C7_Witness ==
    \E i \in Buffers :
        LET w == WireFrames(writes[i]) IN
        Len(w) >= 2 /\ HappensBefore(w[1], w[2])

\* C8: at a quiescent point with all rings empty, sum(sent) + overflow-count
\* equals the number of emit calls routed to a ring: every envelope lost at the
\* transport is counted exactly once.  (Stated as claimed.)
C8_TransportLossCounted ==
    ((\A i \in Buffers : Quiescent(i) /\ channel[i] = <<>>))
    => SumOver(sent, Buffers) + dlt_get_overflow_count = Len(emits)

\* C9: in DropNewest mode with capacity C and no dequeue, after k > C emits the
\* stats are enqueued == k and dropped == k - C and the residents are the first
\* C emitted.  (Stated as claimed; the code counts enqueued only on acceptance.)
C9_EnqueuedCountsEveryEmit ==
    \A i \in Buffers :
        (/\ overflow_mode = 1
         /\ received[i] = <<>>
         /\ Sequential(i) /\ AllReturned(i)
         /\ Cardinality(IdsOf(i)) > buffer_sizes[i])
        => /\ dlt_get_buffer_stats(i)[1] = Cardinality(IdsOf(i))
           /\ dlt_get_buffer_stats(i)[2] = Cardinality(IdsOf(i)) - buffer_sizes[i]
           /\ channel[i] = FirstN(Ascending(IdsOf(i)), buffer_sizes[i])

\* a byte stream in which every frame that starts is continued to its last byte
FrameAligned(bytes) ==
    \A j \in 1..Len(bytes) :
        /\ bytes[j][2] < FrameLen
           => (j < Len(bytes) /\ bytes[j + 1] = <<bytes[j][1], bytes[j][2] + 1>>)
        /\ bytes[j][2] > 1
           => (j > 1 /\ bytes[j - 1] = <<bytes[j][1], bytes[j][2] - 1>>)

\* C10: the byte stream a worker writes is always a concatenation of complete
\* frames: none truncated, none interrupted by another frame.  (Stated as claimed.)
C10_FramingPreserved == \A i \in Buffers : FrameAligned(Wire(writes[i]))

\* C11: a ring's sent counter never exceeds the number of its envelopes whose
\* frames were written completely; a write that transfers only part of the bytes
\* does not count the undelivered envelopes.  (Stated as claimed; writev_send
\* discards the byte count.)
C11_SentCountsDelivered ==
    \A i \in Buffers : sent[i] <= Len(WireFrames(writes[i]))

\* the routing the specification gives: Fatal -> 0, Error -> 1 mod N, every
\* other level -> level mod N
Route(level, n) ==
    IF level = 1 THEN 0 ELSE IF level = 2 THEN 1 % n ELSE level % n

\* C12: an emit without explicit ring selects the ring Route(level, N), which is
\* below N, for every level, from every producer and in every state (whatever
\* the call order, the overflow mode and the occupancy of the rings).
C12_RoutingStep(p, level) ==
    LogAtLevel(p, level)
    => /\ envelope'[p].buffer_id = Route(level, num_buffers)
       /\ envelope'[p].buffer_id < num_buffers
       /\ emits'[Len(emits')].buffer_id = Route(level, num_buffers)

C13_EmitNeverPanics == \A p \in Producers : result[p] # "panic"

\* C14: an emit to an explicit ring index >= N returns an error and leaves the
\* resident envelopes of every ring and every counter of every ring unchanged.
C14_InvalidIndexStep(p, id) ==
    (/\ id >= num_buffers
     /\ pc[p] = "idle"
     /\ LogToBuffer(p, id) \/ LogToInvalidBuffer(p, id))
    => /\ result'[p] = "err" /\ pc'[p] = "idle"
       /\ channel' = channel
       /\ enqueued' = enqueued /\ dropped' = dropped /\ sent' = sent

C14_InvalidIndexRejected ==
    [][\A p \in Producers : \A id \in 0..num_buffers : C14_InvalidIndexStep(p, id)]_vars

\* C14 witness: an emit was rejected for its index (an error without a drop
\* counted) while an envelope was resident
C14_Witness ==
    \E p \in Producers :
        /\ result[p] = "err"
        /\ \A i \in Buffers : dropped[i] = 0
        /\ \E i \in Buffers : channel[i] # <<>>

\* C15: the mode register always holds 0, 1 or 2: an environment value outside
\* 0..=2 initialises it as Overwrite, set-overflow-mode with a value above 2
\* leaves it unchanged, and get-overflow-mode never returns anything else.
C15_SetStep(mode) ==
    (mode > 2 /\ dlt_set_overflow_mode(mode)) => overflow_mode' = overflow_mode

C15_ModeRegisterInRange ==
    /\ (env.overflow_mode \notin Some({0, 1, 2})) => overflow_mode = 0
    /\ [](overflow_mode \in {0, 1, 2} /\ dlt_get_overflow_mode \in 0..2)
    /\ [][\A mode \in ModeArguments : C15_SetStep(mode)]_vars

\* C15 witness: the environment held no valid mode and the register, initialised
\* as Overwrite, was later set to BlockWithTimeout
C15_Witness ==
    /\ env.overflow_mode \in {<<3>>, <<256>>}
    /\ overflow_mode = 2

\* C16: set-overflow-mode changes only the mode register: the resident
\* envelopes of every ring, their order and all counters are unchanged by it,
\* for every pair of old and new mode.
C16_ModeChangeStep ==
    (overflow_mode' # overflow_mode \/ \E mode \in ModeArguments : dlt_set_overflow_mode(mode))
    => /\ channel' = channel
       /\ enqueued' = enqueued /\ dropped' = dropped /\ sent' = sent
       /\ batch' = batch /\ envelope' = envelope

C16_ModeChangeFrame == [][C16_ModeChangeStep]_vars

\* C16 witness: envelope 1 was resident when emit 2 loaded mode Overwrite, is
\* still resident, and the register has since been changed to BlockWithTimeout
C16_Witness ==
    /\ overflow_mode = 2
    /\ Len(emits) = 2 /\ 1 \in emits[2].before
    /\ \E p \in Producers : envelope[p].id = 2 /\ envelope[p].mode = 0
    /\ \E i \in Buffers : channel[i] # <<>> /\ Head(channel[i]) = 1 /\ enqueued[i] = 1

\* what an emit at `at` ("send" or "wait") does next, given only the mode it
\* loaded and whether its ring has room
Decision(at, mode, has_room) ==
    IF has_room THEN "count_enqueued"
    ELSE IF at = "send" /\ mode = 2 THEN "wait"
    ELSE "count_dropped"

\* C17: the value an emit returns depends only on the ring index, the ring's
\* occupancy and the overflow mode, never on the transport: every deciding step
\* of an emit is the function Decision of mode and occupancy, a step of the
\* transport (connect, write, reconnect) changes neither a ring nor an emit, and
\* with the collector unreachable or writes failing the worker still dequeues.
C17_EmitStep(p) ==
    LET i == envelope[p].buffer_id IN
    /\ (pc[p] \in {"send", "wait"} /\ pc'[p] # pc[p])
       => pc'[p] = Decision(pc[p], envelope[p].mode,
                            Len(channel[i]) < buffer_sizes[i])
    /\ (pc[p] = "count_enqueued" /\ pc'[p] # pc[p]) => result'[p] = "ok"
    /\ (pc[p] = "count_dropped" /\ pc'[p] # pc[p]) => result'[p] = "err"

C17_TransportStep ==
    (connected' # connected \/ stream' # stream \/ writes' # writes \/ sent' # sent)
    => /\ channel' = channel
       /\ pc' = pc /\ envelope' = envelope /\ result' = result
       /\ overflow_mode' = overflow_mode
       /\ enqueued' = enqueued /\ dropped' = dropped

C17_WorkerStep(i) ==
    /\ (wpc[i] = "reconnect" /\ wpc'[i] # wpc[i]) => wpc'[i] = "recv"
    /\ (wpc[i] = "send" /\ wpc'[i] # wpc[i]) => wpc'[i] \in {"recv", "reconnect"}
    /\ (wpc[i] \in {"send", "reconnect"}) => channel'[i] \in {channel[i]} \cup
          {Append(channel[i], envelope[p].id) : p \in Producers}

C17_WorkerKeepsDequeuing(i) ==
    /\ (wpc[i] = "recv" /\ channel[i] # <<>>) => ENABLED WorkerRecv(i)
    /\ (wpc[i] = "collect") => ENABLED WorkerTryRecv(i)
    /\ (wpc[i] = "send") => ENABLED WorkerSend(i)
    /\ (wpc[i] = "reconnect") => ENABLED WorkerConnectFails(i)

C18_FailStep(p) ==
    /\ (pc[p] = "count_dropped" /\ pc'[p] # pc[p])
       => /\ pc'[p] = "idle" /\ result'[p] = "err"
          /\ channel' = channel /\ received' = received
    /\ (pc[p] = "idle" /\ pc'[p] = "idle" /\ result'[p] # result[p])
       => /\ result'[p] = "err"
          /\ channel' = channel /\ received' = received
    /\ (/\ pc[p] \in {"send", "wait"} /\ pc'[p] # pc[p]
        /\ Len(channel[envelope[p].buffer_id]) < buffer_sizes[envelope[p].buffer_id])
       => /\ pc'[p] = "count_enqueued"
          /\ channel'[envelope[p].buffer_id] =
                Append(channel[envelope[p].buffer_id], envelope[p].id)

C18_FifoStep(i) ==
    /\ received'[i] # received[i]
       => /\ channel[i] # <<>>
          /\ received'[i] = Append(received[i], Head(channel[i]))
          /\ channel'[i] = Tail(channel[i])
    /\ channel'[i] # channel[i]
       => \/ /\ channel[i] # <<>>
             /\ channel'[i] = Tail(channel[i])
             /\ received'[i] # received[i]
          \/ \E p \in Producers : channel'[i] = Append(channel[i], envelope[p].id)

C18_FailedEmitIsAdvisory ==
    /\ [][/\ \A p \in Producers : C18_FailStep(p)
          /\ \A i \in Buffers : C18_FifoStep(i)]_vars
    /\ [](\A p \in Producers :
            (pc[p] = "idle" /\ result[p] = "err" /\ Len(emits) < MaxRetryEmits)
            => ENABLED RetryLog(p))

\* C18 witness: p2 never emitted; p1's second emit found the ring full and
\* failed, the resident envelope 1 was then dequeued, and p1's third emit was
\* accepted
C18_Witness ==
    /\ pc["p2"] = "idle" /\ result["p2"] = "none"
    /\ pc["p1"] = "idle" /\ result["p1"] = "ok"
    /\ Len(emits) = 3
    /\ dropped[0] = 1 /\ enqueued[0] = 2
    /\ received[0] \o channel[0] = <<1, 3>>

\* C19: configuration is read from the environment once, at initialisation:
\* changing a DLT_USER_* variable afterwards changes neither the number of
\* rings, their capacities, the batch size, the mode register, nor the wait
\* bound applied by later emits, which stays the one in force at init (here
\* the default, DLT_USER_TIMEOUT_MS being unset at init).  (Stated as claimed;
\* OverflowMode::timeout reads the variable at every emit.)
C19_ConfigurationReadOnce ==
    /\ [][/\ num_buffers' = num_buffers /\ buffer_sizes' = buffer_sizes
          /\ batch_size' = batch_size
          /\ env' # env => overflow_mode' = overflow_mode]_vars
    /\ [](\A p \in Producers :
            pc[p] \in {"wait", "count_enqueued", "count_dropped"} /\ envelope[p].mode = 2
            => envelope[p].timeout = timeout([timeout_ms |-> <<>>]))

\* C20: for every frame F the encoder produces (any ECU, app and context id,
\* any message text), decoding the encoded bytes yields a frame equal to F in
\* every field: storage header, standard header, extended header and payload.
C20_FrameRoundTrip ==
    Len(codec) = 3 =>
        /\ codec[3] # <<>>
        /\ codec[3][1].storage_header.pattern = codec[1].storage_header.pattern
        /\ codec[3][1].storage_header.seconds = codec[1].storage_header.seconds
        /\ codec[3][1].storage_header.microseconds = codec[1].storage_header.microseconds
        /\ codec[3][1].storage_header.ecu = codec[1].storage_header.ecu
        /\ codec[3][1].standard_header.htyp = codec[1].standard_header.htyp
        /\ codec[3][1].standard_header.mcnt = codec[1].standard_header.mcnt
        /\ codec[3][1].standard_header.len = codec[1].standard_header.len
        /\ codec[3][1].extended_header = codec[1].extended_header
        /\ codec[3][1].payload = codec[1].payload

\* C20 witness: a frame with distinct ids, a time whose four bytes differ and
\* the long text, whose length fields wrapped, has been encoded and decoded
C20_Witness ==
    /\ Len(codec) = 3
    /\ Len(codec[1].payload) = 6 + U16_MAX + 1
    /\ codec[1].standard_header.len = 20
    /\ Len(codec[2]) = 16 + 4 + 10 + Len(codec[1].payload)
    /\ codec[1].storage_header.seconds = 16909060
    /\ codec[1].storage_header.ecu # codec[1].extended_header[1].apid
    /\ codec[1].extended_header[1].apid # codec[1].extended_header[1].ctid

\* C21: for every message text of every byte length, the 16-bit len field of
\* the standard header new_verbose builds equals the number of bytes of
\* standard header (4) + extended header (10) + payload, and the payload's
\* 16-bit string-length field (payload bytes 4..6, little endian) equals the
\* text's byte length plus one (the payload is 4 type-info bytes, 2 length
\* bytes, the text and one NUL).  (Stated as claimed; `as u16` wraps.)
C21_LengthFieldsExact ==
    Len(codec) >= 1 =>
        /\ codec[1].standard_header.len = 4 + 10 + Len(codec[1].payload)
        /\ from_le_bytes(Slice(codec[1].payload, 4, 6)) = (Len(codec[1].payload) - 7) + 1

\* C22 as claimed: emitting num 0 with message "Hello" on a context with app
\* LOG, context TEST and ECU ECU1 produces a frame of exactly 40 bytes.
C22_FortyByteFrame ==
    /\ Len(codec) >= 2
    /\ \E now \in Times :
        codec[1] = new_verbose(Id(ECU1), Id(LOG), Id(TEST), format_payload(0, Hello), now)
    => Len(codec[2]) = 40

\* C22, amended: emitting num 0 with message "Hello" on a context with app
\* LOG, context TEST and ECU ECU1 produces a frame of exactly 44 bytes (16
\* storage header + 4 standard header + 10 extended header + 14 payload: 4
\* type info, 2 length, the 7 bytes of "0 Hello", 1 NUL) that decodes to
\* exactly those ids with htyp == 0x35, noar == 1 and string payload "0 Hello".
C22_HelloFrame ==
    /\ Len(codec) >= 2
    /\ \E now \in Times :
        codec[1] = new_verbose(Id(ECU1), Id(LOG), Id(TEST), format_payload(0, Hello), now)
    => /\ Len(codec[2]) = 44
       /\ Len(codec) = 3 =>
            /\ codec[3] # <<>>
            /\ codec[3][1].storage_header.ecu = <<69, 67, 85, 49>>
            /\ codec[3][1].extended_header # <<>>
            /\ codec[3][1].extended_header[1].apid = <<76, 79, 71, 0>>
            /\ codec[3][1].extended_header[1].ctid = <<84, 69, 83, 84>>
            /\ codec[3][1].standard_header.htyp = 53
            /\ codec[3][1].extended_header[1].noar = 1
            /\ extract_string_payload(codec[3][1]) = <<ZeroHello>>

\* C22 witness: the frame for num 0 and "Hello" on LOG/TEST/ECU1 has been
\* emitted, serialized and decoded
C22_Witness ==
    /\ Len(codec) = 3
    /\ \E now \in Times :
        codec[1] = new_verbose(Id(ECU1), Id(LOG), Id(TEST), format_payload(0, Hello), now)
    /\ SliceFrom(codec[1].payload, 6) = ZeroHello \o <<0>>

\* C23: decoding yields a frame only for well-formed input: a buffer whose
\* first four bytes differ from the storage pattern DLT\x01 is rejected, and so
\* is a buffer shorter than the 16-byte storage header plus the declared len,
\* or shorter than 30 bytes when the extended-header bit is set.  (Stated as
\* claimed; from_bytes compares neither the pattern nor the declared len.)
C23_DecodeOnlyWellFormed ==
    Len(codec) = 4 /\ codec[4] # <<>> =>
        /\ Slice(codec[3], 0, 4) = <<68, 76, 84, 1>>
        /\ Len(codec[3]) >= 16 + from_le_bytes(Slice(codec[3], 18, 20))
        /\ codec[3][17] % 2 # 0 => Len(codec[3]) >= 30

\* C24: for every byte stream that is a concatenation of well-formed frames
\* and for every way of splitting it into received chunks, the successive
\* receive calls surface exactly those frames, each once and in stream order:
\* after every call the messages returned so far are the decoded frames that
\* have arrived completely, and the bytes of the incomplete frame are pending,
\* unchanged.
C24_FramesSurfaceOnceInOrder ==
    tcp.junk = <<>> /\ client # <<>> =>
        \E n \in 0..Len(tcp.frames) :
            /\ client.messages =
                 [k \in 1..n |-> DltMessage_from_bytes(tcp.frames[k])[1]]
            /\ Arrived = Concat(SubSeq(tcp.frames, 1, n)) \o client.pending_data
            /\ n < Len(tcp.frames) => Len(client.pending_data) < Len(tcp.frames[n + 1])

\* C24 witness: two different frames are served; the first has been surfaced
\* and a part of the second, cut by the end of a read, is pending
C24_Witness ==
    /\ tcp.junk = <<>>
    /\ Len(tcp.frames) = 2
    /\ tcp.frames[1] # tcp.frames[2]
    /\ Len(client.messages) = 1
    /\ client.pending_data # <<>>
    /\ Len(client.pending_data) < Len(tcp.frames[2])

\* C25: when the client fails to decode a candidate frame at some offset of
\* its pending bytes, it skips exactly one byte and continues framing at the
\* next offset, so that a well-formed frame starting later in the stream is
\* still surfaced: every move past a refused candidate is of one byte, and
\* once the whole stream has arrived every frame served has been returned.
\* (Stated as claimed; the offset moves by 16 + len also past a refused
\* candidate.)
C25_ResyncSkipsOneByte ==
    client # <<>> =>
        /\ \A k \in 1..Len(client.skipped) : client.skipped[k] = 1
        /\ tcp.pos = Len(Served) /\ client.last = "Bytes" =>
             Len(client.messages) = Len(tcp.frames)

\* C26: the subscriber program keeps receiving and printing until the
\* connection reaches EOF or a read error occurs: it has left its loop only
\* if its last read returned EOF or an error (a read that delivered bytes
\* without completing a frame does not stop it), and every message the client
\* has returned has been printed.  (Stated as claimed; main breaks on every
\* empty list of messages.)
C26_ReceivesUntilEofOrError ==
    client # <<>> =>
        /\ client.pc # "receiving" => client.last \in {"Eof", "Err"}
        /\ client.printed = client.messages

\* C27: with any number of subscriber tasks popping concurrently from the
\* shared shuttle queue, every chunk appended to the shuttle is written to at
\* most one subscriber and at most once: no two write_all calls carry the same
\* chunk, and a chunk a task holds is neither in the queue, nor held by
\* another task, nor written already.
C27_ChunkWrittenAtMostOnce ==
    /\ \A i \in 1..Len(egress) : \A j \in 1..Len(egress) :
        i # j => egress[i].chunk.id # egress[j].chunk.id
    /\ \A t \in DOMAIN subscriber : subscriber[t].log_msg # <<>> =>
        /\ \A k \in 1..Len(log_buffer) : log_buffer[k].id # subscriber[t].log_msg[1].id
        /\ \A k \in 1..Len(egress) : egress[k].chunk.id # subscriber[t].log_msg[1].id
        /\ \A u \in DOMAIN subscriber :
            u # t => subscriber[u].log_msg # subscriber[t].log_msg

\* C27 witness: both subscriber tasks have written a chunk and a third chunk
\* has been popped
C27_Witness ==
    /\ \E i \in 1..Len(egress) : egress[i].to = "s1"
    /\ \E i \in 1..Len(egress) : egress[i].to = "s2"
    /\ \E t \in DOMAIN subscriber : subscriber[t].log_msg # <<>>

\* C28: every chunk the collector reads from a producer connection is
\* appended to the shuttle queue and forwarded byte-for-byte unchanged; the
\* collector discards no chunk it has read, also when the shuttle already
\* holds 1024 chunks, and the shuttle never holds more than 1024 chunks: each
\* chunk read is, with the bytes read, in the shuttle, in the hands of a
\* subscriber task or written.  (Stated as claimed; the result of push is
\* ignored.)
C28_CollectorDiscardsNothing ==
    /\ Len(log_buffer) <= SHUTTLE_CAPACITY
    /\ {ingress[k] : k \in 1..Len(ingress)} \subseteq
         {log_buffer[n] : n \in 1..Len(log_buffer)}
         \cup {subscriber[t].log_msg[1] : t \in {u \in DOMAIN subscriber :
                                                   subscriber[u].log_msg # <<>>}}
         \cup {egress[n].chunk : n \in 1..Len(egress)}

\* C29: when the worker cannot connect to the collector (at start-up or on a
\* reconnect attempt), the envelopes it has already dequeued are retained and
\* written after a later successful connect: a step of the worker out of its
\* `if !connected` block that leaves it disconnected (connect failed) keeps
\* the batch for the next attempt.  (Stated as claimed; the worker goes back
\* to the top of its loop, where the batch is cleared.)
C29_ConnectFailStep ==
    \A i \in Buffers :
        wpc[i] = "reconnect" /\ wpc'[i] # "reconnect" /\ ~connected'[i]
        => batch'[i] = batch[i]

C29_UnreachableCollectorLosesNothing == [][C29_ConnectFailStep]_vars

\* C30: a vectored write that fails with WouldBlock is treated as transient:
\* the worker stays marked connected and performs no reconnect because of it;
\* only write errors other than WouldBlock mark the worker disconnected and
\* trigger a reconnect.  (Stated as claimed; `if let Err(e)` marks the worker
\* disconnected for every error.)
C30_WouldBlockIsTransient ==
    \A i \in Buffers :
        write_error[i] = "WouldBlock" => connected[i] /\ wpc[i] # "reconnect"

\* C31: after the vectored write of a batch has returned WouldBlock, the
\* worker never writes that batch again, in the same cycle or any later one:
\* a step of a worker whose write of the batch in hand failed with WouldBlock
\* adds no vectored write that carries an envelope of that batch.  (Stated as
\* claimed; the batch is written again after the reconnect of the same cycle.)
C31_WouldBlockStep ==
    \A i \in Buffers :
        write_error[i] = "WouldBlock" /\ Len(writes'[i]) > Len(writes[i]) =>
            \A k \in 1..Len(batch[i]) :
                \A n \in 1..Len(writes'[i][Len(writes'[i])].batch) :
                    writes'[i][Len(writes'[i])].batch[n] # batch[i][k]

C31_WouldBlockBatchNeverRewritten == [][C31_WouldBlockStep]_vars

\* C32: after a write fails with a transport error the worker is marked
\* disconnected and issues no further vectored write until a connect attempt
\* has succeeded; while marked disconnected it attempts to connect in every
\* cycle before any write of that cycle.  As steps of one worker: a failed
\* write leaves it marked disconnected and in its `if !connected` block; a
\* worker marked disconnected never reaches the write of `if connected`, adds a
\* write only in a step that leaves it connected (the connect succeeded), and
\* returns to recv only through the connect attempt.
C32_DisconnectedStep ==
    \A i \in Buffers :
        /\ wpc[i] = "send" /\ wpc'[i] # "send" /\ writes'[i] = writes[i] =>
             ~connected'[i] /\ wpc'[i] = "reconnect"
        /\ ~connected[i] =>
             /\ wpc[i] # "send" /\ wpc'[i] # "send"
             /\ (writes'[i] # writes[i] \/ sent'[i] # sent[i]) => connected'[i]
             /\ wpc[i] # "recv" /\ wpc'[i] = "recv" => wpc[i] = "reconnect"

C33_Batch(i) ==
    /\ Len(batch[i]) <= batch_size
    /\ wpc[i] \in {"collect", "send", "reconnect"} => Len(batch[i]) >= 1
    /\ batch[i] = LastN(received[i], Len(batch[i]))
    /\ \A k \in 1..Len(writes[i]) :
        LET w == writes[i][k] IN
        /\ Len(w.batch) >= 1 /\ Len(w.batch) <= batch_size
        /\ w.n <= Len(Flatten(w.batch))
        /\ \E a \in 0..Len(received[i]) :
             w.batch = SubSeq(received[i], a + 1, a + Len(w.batch))
        /\ batch_size = 1 => Len(w.batch) = 1

C33_WriteStep(i) ==
    writes'[i] # writes[i] =>
        /\ Len(writes'[i]) = Len(writes[i]) + 1
        /\ writes'[i][Len(writes'[i])].batch = batch[i]

C33_BatchIsOneToBInOrder ==
    /\ [](batch_size >= 1 => \A i \in Buffers : C33_Batch(i))
    /\ [][batch_size >= 1 => \A i \in Buffers : C33_WriteStep(i)]_vars

\* C33 witness: with B = 2 a write was issued on a batch of two envelopes
C33_Witness ==
    \E i \in Buffers :
        /\ batch_size = 2
        /\ \E k \in 1..Len(writes[i]) : Len(writes[i][k].batch) = 2

\* C34: under fair scheduling of the worker, every envelope accepted into a
\* ring is eventually dequeued and handed to a write attempt, even if no
\* further emit ever occurs.  In finite form: a step after which a
\* non-empty batch is no longer in the worker's hands either wrote it, or
\* handed it to the write after a successful connect, or follows a failed
\* write of it in the same cycle.  (Stated as claimed; a worker whose connect
\* fails drops the batch without any write attempt.)
C34_HandedToWriteStep ==
    \A i \in Rings :
        batch[i] # <<>> /\ batch'[i] = <<>> =>
            \/ writes'[i] # writes[i]
            \/ connected'[i]
            \/ write_error[i] # "none"

C34_EveryEnvelopeReachesAWrite == [][C34_HandedToWriteStep]_vars

\* C34, the part that holds: under fair scheduling of the worker every
\* envelope accepted into a ring is eventually dequeued, even if no further
\* emit ever occurs; after the first envelope of a cycle the worker never
\* blocks (it always has a step); and a batch leaves the hands of a worker
\* without a write attempt only when the worker is disconnected and its
\* connect attempt fails.
C34_BatchLeavesStep ==
    \A i \in Rings :
        batch[i] # <<>> /\ batch'[i] = <<>> =>
            \/ writes'[i] # writes[i]
            \/ connected'[i]
            \/ write_error[i] # "none"
            \/ ~connected[i] /\ wpc[i] = "reconnect"

C34_EveryEnvelopeDequeued ==
    /\ \A i \in Rings : \A id \in 1..MaxEmits :
        (\E k \in 1..Len(channel[i]) : channel[i][k] = id)
        ~> (\E k \in 1..Len(received[i]) : received[i][k] = id)
    /\ [](\A i \in Rings : wpc[i] # "recv" => ENABLED worker_thread(i))
    /\ [][C34_BatchLeavesStep]_vars


C36_EmitStep(p) ==
    /\ pc[p] = "idle" /\ pc'[p] = "send" =>
         envelope'[p].mode = from_u8(overflow_mode)
    /\ pc[p] \in {"send", "wait"} =>
         /\ envelope'[p].mode = envelope[p].mode
         /\ pc'[p] \in {"send", "wait", "count_enqueued", "count_dropped"}
    /\ pc[p] = "send" /\ pc'[p] = "wait" => envelope[p].mode = 2
    /\ pc[p] = "send" /\ pc'[p] = "count_dropped" => envelope[p].mode \in {0, 1}
    /\ pc[p] = "wait" => envelope[p].mode = 2

\* set-overflow-mode(m) leaves m in the register, or the register as it was
C36_SetStep ==
    overflow_mode' # overflow_mode =>
        /\ overflow_mode' \in {0, 1, 2}
        /\ \A p \in Producers : envelope'[p] = envelope[p] /\ pc'[p] = pc[p]

C36_OneModePerEmit == [][C36_SetStep /\ \A p \in Producers : C36_EmitStep(p)]_vars

\* an emit that read Overwrite drops its envelope at a full ring while the
\* register already holds BlockWithTimeout
C36_Witness ==
    \E p \in Producers :
        pc[p] = "count_dropped" /\ envelope[p].mode = 0 /\ overflow_mode = 2


\* emits on ring i that have returned
C37_Completed(i) == CompletedEmits \cap IdsOf(i)

\* C37: every completed emit on a ring has added one to exactly one of the
\* ring's enqueued and dropped counters, so in every state enqueued + dropped
\* of a ring equals the number of completed emits on it.
C37_OneCounterPerEmit ==
    \A i \in Buffers : enqueued[i] + dropped[i] = Cardinality(C37_Completed(i))


\* C38: in every reachable state, the states between the envelope entering the
\* ring and the producer's counter update included, the sent counter of a
\* ring is at most its enqueued counter.
C38_SentAtMostEnqueued == \A i \in Buffers : sent[i] <= enqueued[i]


\* the envelopes the successful vectored writes of worker i were issued on
RECURSIVE C39_Batches(_)
C39_Batches(ws) ==
    IF ws = <<>> THEN <<>> ELSE Head(ws).batch \o C39_Batches(Tail(ws))

\* C39: no envelope is in the batch of more than one successful vectored
\* write, and sent counts every envelope of those batches once, also when a
\* failed write was followed by a reconnect and a second write of the batch.
C39_WrittenAndCountedOnce ==
    \A i \in Buffers :
        LET q == C39_Batches(writes[i]) IN
        /\ \A a \in 1..Len(q) : \A b \in 1..Len(q) : q[a] = q[b] => a = b
        /\ sent[i] = Len(q)

\* a write failed, the worker reconnected and the second write of the same
\* batch succeeded
C39_Witness ==
    \E i \in Buffers : \E k \in 1..Len(writes[i]) :
        writes[i][k].retry /\ sent[i] = Len(C39_Batches(writes[i]))


\* the envelopes worker i has dequeued and processed: all it received but the
\* batch it is still collecting
C40_Processed(i) ==
    IF wpc[i] = "collect"
    THEN SubSeq(received[i], 1, Len(received[i]) - Len(batch[i]))
    ELSE received[i]

\* the flag an emit reads is the flag of the library at that moment
C40_ReadStep ==
    Len(emits') > Len(emits) =>
        emits'[Len(emits')].local_print = local_print_enabled

\* a store to the flag changes no ring, no counter and no echo
C40_ToggleStep ==
    local_print_enabled' # local_print_enabled =>
        /\ channel' = channel /\ batch' = batch /\ received' = received
        /\ enqueued' = enqueued /\ dropped' = dropped /\ sent' = sent
        /\ echoed' = echoed /\ emits' = emits /\ envelope' = envelope

\* C40: the local-print decision of an envelope is fixed when its emit reads
\* the flag: the envelopes a worker has echoed are exactly those it has
\* processed whose emit read the flag as set, in order, whatever the flag is
\* now, and a later store to the flag changes no echo, ring or counter.
C40_EchoFixedAtEmit ==
    /\ [](\A i \in Buffers :
            echoed[i] = SelectSeq(C40_Processed(i),
                                  LAMBDA id : emits[id].local_print))
    /\ [][C40_ReadStep /\ C40_ToggleStep]_vars

\* envelope 1 was echoed, and envelope 2, whose emit read the flag as clear,
\* was processed without an echo although the flag is set now
C40_Witness ==
    \E i \in Buffers :
        /\ echoed[i] = <<1>> /\ received[i] = <<1, 2>> /\ wpc[i] # "collect"
        /\ local_print_enabled /\ ~emits[2].local_print

====
